---- MODULE Spec2Model ----
(***************************************************************************)
(* Webhook event delivery subsystem of eva-api                             *)
(* (deploy-package/eva_api/services/webhook_service.py and the webhook     *)
(* methods of services/cosmos_service.py).                                 *)
(*                                                                         *)
(* Strings that the code takes apart (event types, subscription patterns)  *)
(* are sequences of one-character strings, so that split, startswith and   *)
(* endswith are computed.  Optional[T] is a sequence of length <= 1:       *)
(* None is <<>> and a present value v is <<v>>.                            *)
(* The service runs on one asyncio event loop: an action is the code a     *)
(* coroutine runs between two suspension points (an HTTP call, a sleep,    *)
(* the await of the dispatcher task).                                      *)
(***************************************************************************)
EXTENDS Integers, Sequences, FiniteSets, Bags, TLC

VARIABLES
    service,        \* the WebhookService singleton: _running, _http_client,
                    \* _worker_task, _delivery_queue, and the dispatcher tasks
    cosmos,         \* the Cosmos containers: webhooks, webhook_logs, webhook_dlq
    deliveries,     \* the _process_delivery coroutines, one per dequeued task
    stopping,       \* the stop() coroutine suspended on `await self._worker_task`
    last_broadcast, \* arguments and return value of the latest broadcast_event
    n_tasks,        \* number of delivery tasks created so far
    n_events,       \* number of events produced so far
    call            \* arguments and results of the calls of _attempt_delivery,
                    \* _generate_signature and verify_signature made directly

vars == <<service, cosmos, deliveries, stopping, last_broadcast, n_tasks, n_events, call>>

(***************************************************************************)
(* Bounds                                                                  *)
(***************************************************************************)
MaxTasks == 2       \* delivery tasks ever enqueued
MaxEvents == 1      \* events ever produced (broadcasts and test events)
MaxWorkers == 1     \* dispatcher tasks ever created by start()
RetryTasks == 1     \* delivery tasks in SpecRetry
MaxStoreFailures == 1  \* store calls that fail during deliveries

TaskIds == 1..MaxTasks

Tenants == {"t1", "t2"}
WebhookIds == {"w1", "w2"}

None == <<>>
Some(v) == <<v>>

(***************************************************************************)
(* Strings                                                                 *)
(***************************************************************************)
Dot == "."
StarSuffix == <<".", "*">>

\* "d.a" (document.added), "d.a.x" (a three-level type), "s.c", and "d"
DocAdded == <<"d", ".", "a">>
DocAddedX == <<"d", ".", "a", ".", "x">>
SpaceCreated == <<"s", ".", "c">>
NoDot == <<"d">>
\* "d.*", "d.a.*", "s.*", "*"
DocStar == <<"d", ".", "*">>
DocAddedStar == <<"d", ".", "a", ".", "*">>
SpaceStar == <<"s", ".", "*">>
Star == <<"*">>

startswith(s, p) == Len(p) <= Len(s) /\ SubSeq(s, 1, Len(p)) = p

endswith(s, p) == Len(p) <= Len(s) /\ SubSeq(s, Len(s) - Len(p) + 1, Len(s)) = p

\* str.split('.')[0]: the text before the first dot, the whole string without one
split0(s) ==
    IF \E i \in 1..Len(s) : s[i] = Dot
    THEN SubSeq(s, 1, (CHOOSE i \in 1..Len(s) :
                          s[i] = Dot /\ \A j \in 1..(i - 1) : s[j] # Dot) - 1)
    ELSE s

\* WebhookService._matches_wildcard
matches_wildcard(event_type, subscribed_events) ==
    \E pattern \in subscribed_events :
        IF endswith(pattern, StarSuffix)
        THEN startswith(event_type, Append(SubSeq(pattern, 1, Len(pattern) - 2), Dot))
        ELSE pattern = Star

(***************************************************************************)
(* Sequences                                                               *)
(***************************************************************************)
Range(s) == {s[i] : i \in DOMAIN s}

Orderings(S) == {s \in [1..Cardinality(S) -> S] : Range(s) = S}

\* the elements of S in the order `ord` lists them
InOrder(S, ord) == SelectSeq(ord, LAMBDA x : x \in S)

\* mutant: a list instead of a dict keyed by id
dict_keys_no_dedup(ids) == ids

\* a dict comprehension keyed by id keeps one entry per key, at the position
\* of the key's first insertion
RECURSIVE dict_keys(_)
dict_keys(ids) ==
    IF ids = <<>> THEN <<>>
    ELSE LET front == dict_keys(SubSeq(ids, 1, Len(ids) - 1))
             last == ids[Len(ids)]
         IN IF last \in Range(front) THEN front ELSE Append(front, last)

(***************************************************************************)
(* CosmosDBService (webhook methods).  `ok` is whether the call reaches a  *)
(* working container: FALSE stands for mock mode, a missing container or   *)
(* a CosmosHttpResponseError.                                              *)
(***************************************************************************)
\* a float of the stats document, kept exactly as a fraction in lowest terms
RECURSIVE GCD(_, _)
GCD(a, b) == IF b = 0 THEN a ELSE GCD(b, a % b)

Ratio(n, d) == LET g == GCD(n, d) IN [num |-> n \div g, den |-> d \div g]

Float(n) == Ratio(n, 1)

ZeroStats == [total_deliveries |-> 0, successful_deliveries |-> 0, failed_deliveries |-> 0,
              avg_response_time_ms |-> Float(0)]

get_webhook(c, webhook_id, tenant_id, ok) ==
    IF ok /\ webhook_id \in DOMAIN c.webhooks /\ c.webhooks[webhook_id].tenant_id = tenant_id
    THEN Some(c.webhooks[webhook_id])
    ELSE None

\* mutant: the query without c.tenant_id = @tenant_id
get_active_webhooks_any_tenant(c, tenant_id, event_type, ok) ==
    IF ok
    THEN {w \in DOMAIN c.webhooks :
            /\ c.webhooks[w].is_active
            /\ event_type \in c.webhooks[w].event_types}
    ELSE {}

\* mutant: the query without c.is_active = true
get_active_webhooks_any(c, tenant_id, event_type, ok) ==
    IF ok
    THEN {w \in DOMAIN c.webhooks :
            /\ c.webhooks[w].tenant_id = tenant_id
            /\ event_type \in c.webhooks[w].event_types}
    ELSE {}

get_active_webhooks(c, tenant_id, event_type, ok) ==
    IF ok
    THEN {w \in DOMAIN c.webhooks :
            /\ c.webhooks[w].tenant_id = tenant_id
            /\ c.webhooks[w].is_active
            /\ event_type \in c.webhooks[w].event_types}
    ELSE {}

update_webhook(c, webhook_id, tenant_id, updates, ok) ==
    IF get_webhook(c, webhook_id, tenant_id, ok) = None
    THEN c
    ELSE [c EXCEPT !.webhooks[webhook_id] =
            [f \in DOMAIN @ |-> IF f \in DOMAIN updates THEN updates[f] ELSE @[f]]]

delete_webhook(c, webhook_id, tenant_id, ok) ==
    IF get_webhook(c, webhook_id, tenant_id, ok) = None
    THEN c
    ELSE [c EXCEPT !.webhooks = [w \in (DOMAIN @) \ {webhook_id} |-> @[w]]]

create_webhook_log(c, log_data, ok) ==
    IF ok THEN [c EXCEPT !.webhook_logs = @ (+) SetToBag({log_data})] ELSE c

create_dlq_entry(c, dlq_data, ok) ==
    IF ok THEN [c EXCEPT !.webhook_dlq = @ (+) SetToBag({dlq_data})] ELSE c

\* mutant: the counters are computed from a copy of the stats read before
\* any delivery completed
update_webhook_stats_stale(c, webhook_id, tenant_id, success, response_time_ms, ok) ==
    LET found == get_webhook(c, webhook_id, tenant_id, ok) IN
    IF found = None
    THEN c
    ELSE LET old == ZeroStats
             stats == [old EXCEPT !.total_deliveries = @ + 1,
                                  !.successful_deliveries = @ + (IF success THEN 1 ELSE 0),
                                  !.failed_deliveries = @ + (IF success THEN 0 ELSE 1)]
         IN update_webhook(c, webhook_id, tenant_id, [stats |-> stats], ok)

\* mutant: every delivery counted as successful, a failed one as failed too
update_webhook_stats_both(c, webhook_id, tenant_id, success, response_time_ms, ok) ==
    LET found == get_webhook(c, webhook_id, tenant_id, ok) IN
    IF found = None
    THEN c
    ELSE LET old == found[1].stats
             stats == [old EXCEPT !.total_deliveries = @ + 1,
                                  !.successful_deliveries = @ + 1,
                                  !.failed_deliveries = @ + (IF success THEN 0 ELSE 1)]
         IN update_webhook(c, webhook_id, tenant_id, [stats |-> stats], ok)

\* CosmosService.update_webhook_stats, lines 566-581: the stats after one more
\* delivery; response_time_ms is a whole number of milliseconds and the
\* average is (current_avg * (total - 1) + response_time_ms) / total
counted_stats(old, success, response_time_ms) ==
    LET total == old.total_deliveries + 1
        current_avg == old.avg_response_time_ms
    IN [total_deliveries |-> total,
        successful_deliveries |-> old.successful_deliveries + (IF success THEN 1 ELSE 0),
        failed_deliveries |-> old.failed_deliveries + (IF success THEN 0 ELSE 1),
        avg_response_time_ms |->
            Ratio(current_avg.num * (total - 1) + response_time_ms * current_avg.den,
                  current_avg.den * total)]

\* CosmosService.update_webhook_stats
update_webhook_stats(c, webhook_id, tenant_id, success, response_time_ms, ok) ==
    LET found == get_webhook(c, webhook_id, tenant_id, ok) IN
    IF found = None
    THEN c
    ELSE LET stats == CHOOSE s \in {counted_stats(old, success, response_time_ms) :
                                      old \in {found[1].stats}} : TRUE
         IN update_webhook(c, webhook_id, tenant_id, [stats |-> stats], ok)

\* WebhookService._update_webhook_stats: the response time it passes is 0.0
\* whatever the attempt measured (line 460)
_update_webhook_stats(c, webhook_id, tenant_id, success, ok) ==
    update_webhook_stats(c, webhook_id, tenant_id, success, 0, ok)

(***************************************************************************)
(* WebhookService: lifecycle and queue                                     *)
(***************************************************************************)
\* mutant: the last two delays exchanged
RETRY_DELAYS_reordered == <<1, 25, 5>>

RETRY_DELAYS == <<1, 5, 25>>

\* WebhookService.__init__
NewService ==
    [_running |-> FALSE, _http_client |-> None, _worker_task |-> None,
     _delivery_queue |-> <<>>, workers |-> <<>>]

\* mutant: start() without the check of _running
start_unguarded(svc) ==
    [svc EXCEPT !._running = TRUE,
                !._http_client = Some("AsyncClient"),
                !.workers = Append(@, "running"),
                !._worker_task = Some(Len(svc.workers) + 1)]

\* WebhookService.start: workers[i] is the state of the i-th dispatcher task
start(svc) ==
    IF svc._running
    THEN svc
    ELSE [svc EXCEPT !._running = TRUE,
                     !._http_client = Some("AsyncClient"),
                     !.workers = Append(@, "running"),
                     !._worker_task = Some(Len(svc.workers) + 1)]

\* mutant: stop() that empties the queue
stop_cancel_clearing(svc) ==
    IF svc._worker_task = None
    THEN [svc EXCEPT !._running = FALSE, !._delivery_queue = <<>>]
    ELSE [svc EXCEPT !._running = FALSE,
                     !._delivery_queue = <<>>,
                     !.workers[svc._worker_task[1]] =
                         IF @ = "running" THEN "cancelled" ELSE @]

\* WebhookService.stop up to `await self._worker_task`
stop_cancel(svc) ==
    IF svc._worker_task = None
    THEN [svc EXCEPT !._running = FALSE]
    ELSE [svc EXCEPT !._running = FALSE,
                     !.workers[svc._worker_task[1]] =
                         IF @ = "running" THEN "cancelled" ELSE @]

\* WebhookService.stop after the awaited dispatcher task has ended
stop_close(svc) == [svc EXCEPT !._http_client = None]

\* mutant: deliver_event without the auto-start
deliver_event_no_autostart(svc, tid, webhook_id, event, tenant_id) ==
    [svc EXCEPT !._delivery_queue =
        Append(@, [tid |-> tid, webhook_id |-> webhook_id,
                   event |-> event, tenant_id |-> tenant_id])]

\* WebhookService.deliver_event
deliver_event(svc, tid, webhook_id, event, tenant_id) ==
    LET started == IF ~svc._running THEN start(svc) ELSE svc
        delivery_task == [tid |-> tid, webhook_id |-> webhook_id,
                          event |-> event, tenant_id |-> tenant_id]
    IN [started EXCEPT !._delivery_queue = Append(@, delivery_task)]

\* the loop of broadcast_event over all_webhooks.values()
RECURSIVE deliver_all(_, _, _, _, _)
deliver_all(svc, n, ids, event, tenant_id) ==
    IF ids = <<>> THEN svc
    ELSE deliver_all(deliver_event(svc, n + 1, Head(ids), event, tenant_id),
                     n + 1, Tail(ids), event, tenant_id)

\* event_type.split('.')[0] + '.*'
event_prefix(event_type) == split0(event_type) \o StarSuffix

\* mutant: a third query, for the bare '*' pattern
all_webhooks_with_star(c, event_type, tenant_id, ok1, ok2, ord) ==
    dict_keys(InOrder(get_active_webhooks(c, tenant_id, event_type, ok1), ord)
              \o InOrder(get_active_webhooks(c, tenant_id, event_prefix(event_type), ok2), ord)
              \o InOrder(get_active_webhooks(c, tenant_id, Star, ok2), ord))

\* mutant: without the wildcard query
all_webhooks_exact_only(c, event_type, tenant_id, ok1, ok2, ord) ==
    dict_keys(InOrder(get_active_webhooks(c, tenant_id, event_type, ok1), ord))

\* webhooks + wildcard_webhooks, as lists of ids in the order the store returns
\* them, then the dict keyed by id
all_webhooks(c, event_type, tenant_id, ok1, ok2, ord) ==
    dict_keys(InOrder(get_active_webhooks(c, tenant_id, event_type, ok1), ord)
              \o InOrder(get_active_webhooks(c, tenant_id, event_prefix(event_type), ok2), ord))

\* mutant: the count of the subscriptions the exact query returned
broadcast_event_counting_exact(svc, c, n, event_type, event, tenant_id, ok1, ok2, ord) ==
    LET ids == all_webhooks(c, event_type, tenant_id, ok1, ok2, ord) IN
    IF ids = <<>>
    THEN [service |-> svc, count |-> 0]
    ELSE [service |-> deliver_all(svc, n, ids, event, tenant_id),
          count |-> Cardinality(get_active_webhooks(c, tenant_id, event_type, ok1))]

\* WebhookService.broadcast_event: the service after it, and the count returned
broadcast_event(svc, c, n, event_type, event, tenant_id, ok1, ok2, ord) ==
    LET ids == all_webhooks(c, event_type, tenant_id, ok1, ok2, ord) IN
    IF ids = <<>>
    THEN [service |-> svc, count |-> 0]
    ELSE [service |-> deliver_all(svc, n, ids, event, tenant_id), count |-> Len(ids)]

(***************************************************************************)
(* Signatures.  Text is a sequence of characters; codepoint is the code    *)
(* point of the characters used here, Nul is U+0000, EAcute is U+00E9.     *)
(***************************************************************************)
Nul == "NUL"
EAcute == "U+00E9"

HexDigits == <<"0", "1", "2", "3", "4", "5", "6", "7", "8", "9",
               "a", "b", "c", "d", "e", "f">>

CodePoints ==
    {<<Nul, 0>>, <<"\"", 34>>, <<"*", 42>>, <<",", 44>>, <<".", 46>>,
     <<"0", 48>>, <<"1", 49>>, <<"2", 50>>, <<"3", 51>>, <<"4", 52>>,
     <<"5", 53>>, <<"6", 54>>, <<"7", 55>>, <<"8", 56>>, <<"9", 57>>,
     <<":", 58>>, <<"=", 61>>, <<"A", 65>>, <<"a", 97>>, <<"b", 98>>,
     <<"c", 99>>, <<"d", 100>>, <<"e", 101>>, <<"f", 102>>, <<"h", 104>>,
     <<"i", 105>>, <<"k", 107>>, <<"n", 110>>, <<"s", 115>>, <<"t", 116>>,
     <<"w", 119>>, <<"x", 120>>, <<"{", 123>>, <<"}", 125>>, <<EAcute, 233>>}

codepoint(ch) == (CHOOSE p \in CodePoints : p[1] = ch)[2]

\* str.encode("utf-8")
RECURSIVE encode(_)
encode(s) ==
    IF s = <<>> THEN <<>>
    ELSE LET cp == codepoint(s[1])
         IN (IF cp < 128 THEN <<cp>> ELSE <<192 + (cp \div 64), 128 + (cp % 64)>>)
            \o encode(Tail(s))

\* the order of str: by code point, a proper prefix first
RECURSIVE str_less(_, _)
str_less(a, b) ==
    IF b = <<>> THEN FALSE
    ELSE IF a = <<>> THEN TRUE
    ELSE IF codepoint(a[1]) # codepoint(b[1]) THEN codepoint(a[1]) < codepoint(b[1])
    ELSE str_less(Tail(a), Tail(b))

\* a dict is the sequence of its <<key, value>> items in insertion order;
\* sorted_items is the order sort_keys=True writes them in
RECURSIVE sorted_items(_)
sorted_items(items) ==
    IF items = <<>> THEN <<>>
    ELSE LET last == items[Len(items)]
             front == sorted_items(SubSeq(items, 1, Len(items) - 1))
             before == SelectSeq(front, LAMBDA it : ~str_less(last[1], it[1]))
             after == SelectSeq(front, LAMBDA it : str_less(last[1], it[1]))
         IN before \o <<last>> \o after

RECURSIVE json_items(_)
json_items(items) ==
    IF items = <<>> THEN <<>>
    ELSE <<"\"">> \o items[1][1] \o <<"\"", ":", "\"">> \o items[1][2] \o <<"\"">>
         \o (IF Len(items) = 1 THEN <<>> ELSE <<",">> \o json_items(Tail(items)))

\* mutant: the keys are written in insertion order
json_dumps_insertion_order(payload) == <<"{">> \o json_items(payload) \o <<"}">>

\* json.dumps(payload, separators=(",", ":"), sort_keys=True) of a dict of strings
json_dumps(payload) == <<"{">> \o json_items(sorted_items(payload)) \o <<"}">>

\* SHA-256 is stood for by a small digest of 32 bytes that has no collisions
\* on the inputs drawn in this module: sha256_state is a sum over the bytes
\* lo..hi of the message weighted by position, sha256 spreads it over the
\* 32 bytes together with the length
RECURSIVE sha256_state(_, _, _)
sha256_state(bytes, lo, hi) ==
    IF lo > hi THEN 0
    ELSE IF lo = hi THEN ((bytes[lo] + 1) * ((lo * lo * 7 + lo * 13 + 1) % 65521)) % 65521
    ELSE LET mid == (lo + hi) \div 2
         IN (sha256_state(bytes, lo, mid) + sha256_state(bytes, mid + 1, hi)) % 65521

sha256(bytes) ==
    LET h == (sha256_state(bytes, 1, Len(bytes)) + 31 * Len(bytes)) % 65521
    IN [i \in 1..32 |->
            IF i = 1 THEN h % 256
            ELSE IF i = 2 THEN h \div 256
            ELSE ((h + i) * ((h % 251) + i)) % 256]

\* hmac.new(key, msg, hashlib.sha256).digest(): a key longer than the block of
\* 64 bytes is hashed, a shorter one is filled with zero bytes up to the block
hmac_new(key, msg) ==
    LET k0 == IF Len(key) > 64 THEN sha256(key) ELSE key
        block == k0 \o [i \in 1..(64 - Len(k0)) |-> 0]
    IN sha256(block \o msg)

\* bytes.hex(): two lowercase digits per byte
RECURSIVE hexdigest(_)
hexdigest(bytes) ==
    IF bytes = <<>> THEN <<>>
    ELSE <<HexDigits[(bytes[1] \div 16) + 1], HexDigits[(bytes[1] % 16) + 1]>>
         \o hexdigest(Tail(bytes))

\* mutant: the digest does not depend on the secret
generate_signature_unkeyed(payload, secret) ==
    hexdigest(sha256(encode(json_dumps(payload))))

\* WebhookService._generate_signature
generate_signature(payload, secret) ==
    hexdigest(hmac_new(encode(secret), encode(json_dumps(payload))))

Sha256Prefix == <<"s", "h", "a", "2", "5", "6", "=">>

is_ascii(s) == \A i \in DOMAIN s : codepoint(s[i]) < 128

\* mutant: the prefix of the header is not looked at
verify_signature_any_prefix(payload, signature_header, secret) ==
    IF signature_header = None THEN FALSE
    ELSE LET received_signature == SubSeq(signature_header[1], 8, Len(signature_header[1]))
             expected_signature == generate_signature(payload, secret)
         IN is_ascii(received_signature) /\ received_signature = expected_signature

\* WebhookService.verify_signature; signature_header is None or Some(text).
\* Every exception is caught and gives FALSE: the AttributeError of None, and
\* the TypeError of hmac.compare_digest for text that is not ASCII
verify_signature(payload, signature_header, secret) ==
    IF signature_header = None THEN FALSE
    ELSE IF ~startswith(signature_header[1], Sha256Prefix) THEN FALSE
    ELSE LET received_signature == SubSeq(signature_header[1], 8, Len(signature_header[1]))
             expected_signature == generate_signature(payload, secret)
         IN IF ~is_ascii(received_signature) THEN FALSE
            ELSE received_signature = expected_signature

\* the event dict as the routers build it: its items in insertion order, the
\* id and the tenant as the strings they are ("e1", "t1")
event_items(event) ==
    << <<<<"e", "t">>, IF "event_type" \in DOMAIN event THEN event.event_type ELSE <<>> >>,
       <<<<"e", "i">>, <<"e", HexDigits[event.event_id + 1]>> >>,
       <<<<"t", "i">>, <<"t", IF event.tenant_id = "t1" THEN "1" ELSE "2">> >> >>

\* mutant: the header is never added
attempt_headers_unsigned(webhook, event, attempt) ==
    [X_Event_Type |-> event.event_type, X_Event_ID |-> event.event_id,
     X_Delivery_Attempt |-> ToString(attempt + 1), X_Webhook_Signature |-> None]

\* _attempt_delivery, lines 296-310: the headers of the POST.  A document
\* without the key "secret" gives None (webhook.get); `if secret:` takes None
\* and the empty string as no secret.  X_Webhook_Signature None: no such header
attempt_headers(webhook, event, attempt) ==
    LET secret == IF "secret" \in DOMAIN webhook THEN webhook.secret ELSE None
    IN [X_Event_Type |-> event.event_type, X_Event_ID |-> event.event_id,
        X_Delivery_Attempt |-> ToString(attempt + 1),
        X_Webhook_Signature |->
            IF secret # None /\ secret[1] # <<>>
            THEN Some(Sha256Prefix \o generate_signature(event_items(event), secret[1]))
            ELSE None]

(***************************************************************************)
(* WebhookService: one delivery.  ctx is [d, c]: the coroutine's locals    *)
(* and the Cosmos containers; io says which store calls of the step work.  *)
(* d.attempts and d.sleeps record the calls of _attempt_delivery (with     *)
(* their outcome) and of asyncio.sleep (with the delay); d.requests the    *)
(* url and headers of the POSTs; d.store_failures counts the store calls   *)
(* made for the task that did not work.                                    *)
(***************************************************************************)
Failed(ok) == IF ok THEN 0 ELSE 1

NoDelivery ==
    [pc |-> "none", task |-> None, webhook |-> None, attempt |-> 0,
     success |-> FALSE, last_error |-> None,
     attempts |-> <<>>, requests |-> <<>>, sleeps |-> <<>>, store_failures |-> 0]

\* the time an answered POST took in the model, in milliseconds
ResponseMs == 40

HTTP_TIMEOUT_MS == 10000

Response(code) == [kind |-> "response", status_code |-> Some(code), elapsed_ms |-> ResponseMs]
TimeoutException == [kind |-> "timeout", status_code |-> None, elapsed_ms |-> HTTP_TIMEOUT_MS]
RequestError == [kind |-> "request_error", status_code |-> None, elapsed_ms |-> ResponseMs]
\* self._http_client is None: AttributeError, not an httpx exception
NoClientError == [kind |-> "raised", status_code |-> None, elapsed_ms |-> 0]

\* an exception of the POST that _attempt_delivery does not catch, such as
\* the RuntimeError of a closed client; line 255 catches it
RuntimeError == [kind |-> "raised", status_code |-> None, elapsed_ms |-> ResponseMs]

\* mutant: status 300 counts as delivered
attempt_result_upto_300(outcome) ==
    IF outcome.kind = "response"
    THEN LET code == outcome.status_code[1]
             success == 200 <= code /\ code <= 300
         IN [success |-> success, status_code |-> Some(code),
             response_time_ms |-> outcome.elapsed_ms,
             response_body |-> Some("text"),
             error_message |-> IF success THEN None ELSE Some("HTTP " \o ToString(code))]
    ELSE IF outcome.kind = "timeout"
    THEN [success |-> FALSE, status_code |-> None, response_body |-> None,
          response_time_ms |-> outcome.elapsed_ms,
          error_message |-> Some("Timeout after 10.0s")]
    ELSE [success |-> FALSE, status_code |-> None, response_body |-> None,
          response_time_ms |-> outcome.elapsed_ms,
          error_message |-> Some("Request error: detail")]

\* the dictionary _attempt_delivery returns for the outcome of the POST
attempt_result(outcome) ==
    IF outcome.kind = "response"
    THEN LET code == outcome.status_code[1]
             success == 200 <= code /\ code < 300
         IN [success |-> success, status_code |-> Some(code),
             response_time_ms |-> outcome.elapsed_ms,
             response_body |-> Some("text"),
             error_message |-> IF success THEN None ELSE Some("HTTP " \o ToString(code))]
    ELSE IF outcome.kind = "timeout"
    THEN [success |-> FALSE, status_code |-> None, response_body |-> None,
          response_time_ms |-> outcome.elapsed_ms,
          error_message |-> Some("Timeout after 10.0s")]
    ELSE [success |-> FALSE, status_code |-> None, response_body |-> None,
          response_time_ms |-> outcome.elapsed_ms,
          error_message |-> Some("Request error: detail")]

\* WebhookService._log_delivery: result.get("response_body", "")[:1000] raises
\* TypeError when the value is None, and the except clause swallows it.  The
\* record reads the keys "error" and "duration_ms" with result.get
log_delivery(c, webhook_id, tenant_id, event, result, attempt, ok) ==
    IF result.response_body = None
    THEN c
    ELSE create_webhook_log(c,
            [webhook_id |-> webhook_id, tenant_id |-> tenant_id,
             event_type |-> event.event_type, event_id |-> event.event_id,
             attempt |-> attempt, status_code |-> result.status_code,
             error |-> IF "error" \in DOMAIN result THEN result.error ELSE None,
             duration_ms |-> IF "duration_ms" \in DOMAIN result
                             THEN result.duration_ms ELSE 0,
             success |-> result.success], ok)

\* WebhookService._send_to_dead_letter_queue
send_to_dead_letter_queue(c, webhook_id, event, tenant_id, error, ok) ==
    create_dlq_entry(c,
        [webhook_id |-> webhook_id, tenant_id |-> tenant_id, event |-> event,
         error |-> error, retries_exhausted |-> TRUE, processed |-> FALSE], ok)

\* mutant: a task whose attempts all failed ends without stats and dead letter
finish_failed_silently(ctx, io) == [ctx EXCEPT !.d.pc = "done"]

\* _process_delivery, lines 265-273: after the loop, without a success
finish_failed(ctx, io) ==
    LET d == ctx.d
        t == d.task[1]
        error == IF d.last_error = None \/ d.last_error = Some("")
                 THEN "All delivery attempts failed" ELSE d.last_error[1]
        c1 == _update_webhook_stats(ctx.c, t.webhook_id, t.tenant_id, FALSE, io.stats_ok)
        c2 == send_to_dead_letter_queue(c1, t.webhook_id, t.event, t.tenant_id, error, io.dlq_ok)
    IN [d |-> [d EXCEPT !.pc = "done",
                        !.store_failures = @ + Failed(io.stats_ok) + Failed(io.dlq_ok)],
        c |-> c2]

\* mutant: gives up after the first failed attempt
after_failed_attempt_no_retry(ctx, io) == finish_failed(ctx, io)

\* _process_delivery, lines 261-273: after an attempt that did not succeed
after_failed_attempt(ctx, io) ==
    IF ctx.d.attempt < Len(RETRY_DELAYS)
    THEN [ctx EXCEPT !.d.pc = "sleeping",
                     !.d.sleeps = Append(@, RETRY_DELAYS[ctx.d.attempt + 1])]
    ELSE finish_failed(ctx, io)

\* _process_delivery, lines 226-231 and _attempt_delivery up to the POST
begin_attempt(ctx, io, svc) ==
    IF svc._http_client = None
    THEN after_failed_attempt(
            [ctx EXCEPT !.d.last_error = Some("'NoneType' object has no attribute 'post'"),
                        !.d.attempts = Append(@, NoClientError)], io)
    ELSE [ctx EXCEPT !.d.pc = "posting",
                     !.d.requests = Append(@,
                        [url |-> ctx.d.webhook[1].url,
                         headers |-> attempt_headers(ctx.d.webhook[1],
                                         ctx.d.task[1].event, ctx.d.attempt)])]

\* mutant: the is_active check of lines 217-219 is missing
process_start_no_active_check(ctx, io, svc) ==
    LET t == ctx.d.task[1]
        webhook == get_webhook(ctx.c, t.webhook_id, t.tenant_id, io.get_ok)
        d1 == [ctx.d EXCEPT !.store_failures = @ + Failed(io.get_ok)]
    IN IF webhook = None
       THEN [ctx EXCEPT !.d = [d1 EXCEPT !.pc = "done"]]
       ELSE begin_attempt([ctx EXCEPT !.d = [d1 EXCEPT !.webhook = webhook]], io, svc)

\* _process_delivery, lines 204-231: from its start to the first POST
process_start(ctx, io, svc) ==
    LET t == ctx.d.task[1]
        webhook == get_webhook(ctx.c, t.webhook_id, t.tenant_id, io.get_ok)
        d1 == [ctx.d EXCEPT !.store_failures = @ + Failed(io.get_ok)]
    IN IF webhook = None
       THEN [ctx EXCEPT !.d = [d1 EXCEPT !.pc = "done"]]
       ELSE IF ~webhook[1].is_active
       THEN [ctx EXCEPT !.d = [d1 EXCEPT !.pc = "done"]]
       ELSE begin_attempt([ctx EXCEPT !.d = [d1 EXCEPT !.webhook = webhook]], io, svc)

\* mutant: a failed log write raises into the retry loop, whose except clause
\* takes the attempt as failed
post_returns_log_raises(ctx, outcome, io) ==
    LET d == ctx.d
        t == d.task[1]
        result == attempt_result(outcome)
        logged == log_delivery(ctx.c, t.webhook_id, t.tenant_id, t.event, result,
                               d.attempt, io.log_ok)
        d1 == [d EXCEPT !.attempts = Append(@, outcome),
                        !.store_failures =
                            @ + Failed(result.response_body = None \/ io.log_ok)]
    IN IF result.success /\ (io.log_ok \/ result.response_body = None)
       THEN [d |-> [d1 EXCEPT !.success = TRUE, !.pc = "done",
                              !.store_failures = @ + Failed(io.stats_ok)],
             c |-> _update_webhook_stats(logged, t.webhook_id, t.tenant_id, TRUE, io.stats_ok)]
       ELSE after_failed_attempt(
                [d |-> [d1 EXCEPT !.last_error =
                            IF io.log_ok \/ result.response_body = None
                            THEN result.error_message ELSE Some("log write failed")],
                 c |-> logged], io)

\* mutant: the stats are updated after every attempt
post_returns_counting_attempts(ctx, outcome, io) ==
    LET d == ctx.d
        t == d.task[1]
        result == attempt_result(outcome)
        logged == log_delivery(ctx.c, t.webhook_id, t.tenant_id, t.event, result,
                               d.attempt, io.log_ok)
        counted == _update_webhook_stats(logged, t.webhook_id, t.tenant_id,
                                        result.success, io.stats_ok)
        d1 == [d EXCEPT !.attempts = Append(@, outcome)]
    IN IF result.success
       THEN [d |-> [d1 EXCEPT !.success = TRUE, !.pc = "done"], c |-> counted]
       ELSE after_failed_attempt(
                [d |-> [d1 EXCEPT !.last_error = result.error_message], c |-> counted], io)

\* _attempt_delivery from the end of the POST, and _process_delivery, lines 233-273
post_returns(ctx, outcome, io) ==
    LET d == ctx.d
        t == d.task[1]
        result == attempt_result(outcome)
        logged == log_delivery(ctx.c, t.webhook_id, t.tenant_id, t.event, result,
                               d.attempt, io.log_ok)
        d1 == [d EXCEPT !.attempts = Append(@, outcome),
                        !.store_failures =
                            @ + Failed(result.response_body = None \/ io.log_ok)]
    IN IF outcome.kind = "raised"
       THEN after_failed_attempt(
                [d |-> [d EXCEPT !.attempts = Append(@, outcome),
                                 !.last_error = Some("Cannot send a request")],
                 c |-> ctx.c], io)
       ELSE IF result.success
       THEN [d |-> [d1 EXCEPT !.success = TRUE, !.pc = "done",
                              !.store_failures = @ + Failed(io.stats_ok)],
             c |-> _update_webhook_stats(logged, t.webhook_id, t.tenant_id, TRUE, io.stats_ok)]
       ELSE after_failed_attempt(
                [d |-> [d1 EXCEPT !.last_error = result.error_message], c |-> logged], io)

\* mutant: the subscription is read again before every retry, and the task
\* ends when it is gone or inactive
sleep_returns_rechecking(ctx, io, svc) ==
    LET t == ctx.d.task[1]
        webhook == get_webhook(ctx.c, t.webhook_id, t.tenant_id, io.get_ok)
    IN IF webhook = None
       THEN [ctx EXCEPT !.d.pc = "done"]
       ELSE IF ~webhook[1].is_active
       THEN [ctx EXCEPT !.d.pc = "done"]
       ELSE begin_attempt([ctx EXCEPT !.d.attempt = @ + 1, !.d.webhook = webhook], io, svc)

\* _process_delivery, line 263 and the next iteration of the loop
sleep_returns(ctx, io, svc) ==
    begin_attempt([ctx EXCEPT !.d.attempt = @ + 1], io, svc)

(***************************************************************************)
(* Inputs                                                                  *)
(***************************************************************************)
StoreIO == [get_ok : BOOLEAN, log_ok : BOOLEAN, stats_ok : BOOLEAN, dlq_ok : BOOLEAN]
AllOk == [get_ok |-> TRUE, log_ok |-> TRUE, stats_ok |-> TRUE, dlq_ok |-> TRUE]

StatusCodes == {200, 500}
Outcomes == {Response(code) : code \in StatusCodes} \cup {TimeoutException, RequestError}

EventTypes == {DocAdded, DocAddedX, SpaceCreated}

WebhookDocs(type_sets) ==
    [tenant_id : Tenants, is_active : BOOLEAN, event_types : type_sets, stats : {ZeroStats}, url : {"u1"}]

Stores(type_sets) ==
    UNION {[D -> WebhookDocs(type_sets)] : D \in SUBSET WebhookIds}

\* before the first broadcast
NoBroadcast == [event_type |-> <<>>, event_id |-> 0, tenant_id |-> "", count |-> 0,
                ok |-> FALSE, ok1 |-> FALSE, ok2 |-> FALSE]

\* no direct call was made
NoCall == [op |-> "none"]

(***************************************************************************)
(* Actions                                                                 *)
(***************************************************************************)
\* the state after construction, with the subscription store in state `store`
InitWith(store) ==
    /\ service = NewService
    /\ cosmos = [webhooks |-> store, webhook_logs |-> EmptyBag, webhook_dlq |-> EmptyBag]
    /\ deliveries = [t \in TaskIds |-> NoDelivery]
    /\ stopping = None
    /\ last_broadcast = NoBroadcast
    /\ n_tasks = 0
    /\ n_events = 0
    /\ call = NoCall

\* start_webhook_service (application lifespan); lim bounds the run
Start(lim) ==
    /\ ~service._running
    /\ Len(service.workers) < lim.workers
    /\ service' = start(service)
    /\ UNCHANGED <<call, cosmos, deliveries, stopping, last_broadcast, n_tasks, n_events>>

\* stop_webhook_service: stop() up to its await of the dispatcher task
Stop ==
    /\ service._running
    /\ stopping = None
    /\ service' = stop_cancel(service)
    /\ stopping' = service._worker_task
    /\ UNCHANGED <<call, cosmos, deliveries, last_broadcast, n_tasks, n_events>>

\* the cancelled dispatcher task ends (_delivery_worker, lines 189-196)
WorkerExit(i) ==
    /\ i \in DOMAIN service.workers
    /\ service.workers[i] = "cancelled"
    /\ service' = [service EXCEPT !.workers[i] = "finished"]
    /\ UNCHANGED <<call, cosmos, deliveries, stopping, last_broadcast, n_tasks, n_events>>

\* stop() resumes: closes the HTTP client
StopResume ==
    /\ stopping # None
    /\ service.workers[stopping[1]] = "finished"
    /\ service' = stop_close(service)
    /\ stopping' = None
    /\ UNCHANGED <<call, cosmos, deliveries, last_broadcast, n_tasks, n_events>>

\* a router broadcasts an event (routers/spaces.py _broadcast_space_event)
Broadcast(event_type, tenant_id, ok1, ok2, ord, lim) ==
    LET event == [event_type |-> event_type, event_id |-> n_events + 1,
                  tenant_id |-> tenant_id]
        r == broadcast_event(service, cosmos, n_tasks, event_type, event, tenant_id,
                             ok1, ok2, ord)
    IN /\ n_events < lim.events
       /\ n_tasks + r.count <= lim.tasks
       /\ (r.count > 0 /\ ~service._running) => Len(service.workers) < lim.workers
       /\ service' = r.service
       /\ n_tasks' = n_tasks + r.count
       /\ n_events' = n_events + 1
       /\ last_broadcast' = [event_type |-> event_type, event_id |-> n_events + 1,
                             tenant_id |-> tenant_id, count |-> r.count,
                             ok |-> ok1 /\ ok2, ok1 |-> ok1, ok2 |-> ok2]
       /\ UNCHANGED <<call, cosmos, deliveries, stopping>>

\* a query of broadcast_event raises an exception that get_active_webhooks does
\* not catch (anything but CosmosHttpResponseError): lines 168-170 log it and
\* return 0, before any task was enqueued
BroadcastStoreRaises(event_type, tenant_id, lim) ==
    /\ n_events < lim.events
    /\ n_events' = n_events + 1
    /\ last_broadcast' = [event_type |-> event_type, event_id |-> n_events + 1,
                          tenant_id |-> tenant_id, count |-> 0,
                          ok |-> FALSE, ok1 |-> FALSE, ok2 |-> FALSE]
    /\ UNCHANGED <<call, service, cosmos, deliveries, stopping, n_tasks>>

\* mutant: the dispatcher awaits each delivery before it takes the next task
Dispatch_awaiting(i) ==
    /\ \A t \in TaskIds : deliveries[t].pc \in {"none", "done"}
    /\ i \in DOMAIN service.workers
    /\ service.workers[i] = "running"
    /\ service._delivery_queue # <<>>
    /\ LET delivery_task == Head(service._delivery_queue) IN
        /\ service' = [service EXCEPT !._delivery_queue = Tail(@)]
        /\ deliveries' = [deliveries EXCEPT ![delivery_task.tid] =
                            [NoDelivery EXCEPT !.pc = "spawned", !.task = Some(delivery_task)]]
    /\ UNCHANGED <<call, cosmos, stopping, last_broadcast, n_tasks, n_events>>

\* mutant: the dispatcher takes the task enqueued last
Dispatch_newest_first(i) ==
    /\ i \in DOMAIN service.workers
    /\ service.workers[i] = "running"
    /\ service._delivery_queue # <<>>
    /\ LET n == Len(service._delivery_queue)
           delivery_task == service._delivery_queue[n] IN
        /\ service' = [service EXCEPT !._delivery_queue = SubSeq(@, 1, n - 1)]
        /\ deliveries' = [deliveries EXCEPT ![delivery_task.tid] =
                            [NoDelivery EXCEPT !.pc = "spawned", !.task = Some(delivery_task)]]
    /\ UNCHANGED <<call, cosmos, stopping, last_broadcast, n_tasks, n_events>>

\* _delivery_worker, lines 176-184: dequeue one task and spawn its delivery
Dispatch(i) ==
    /\ i \in DOMAIN service.workers
    /\ service.workers[i] = "running"
    /\ service._delivery_queue # <<>>
    /\ LET delivery_task == Head(service._delivery_queue) IN
        /\ service' = [service EXCEPT !._delivery_queue = Tail(@)]
        /\ deliveries' = [deliveries EXCEPT ![delivery_task.tid] =
                            [NoDelivery EXCEPT !.pc = "spawned", !.task = Some(delivery_task)]]
    /\ UNCHANGED <<call, cosmos, stopping, last_broadcast, n_tasks, n_events>>

RECURSIVE StoreFailures(_, _)
StoreFailures(ds, n) == IF n = 0 THEN 0 ELSE ds[n].store_failures + StoreFailures(ds, n - 1)

\* a step of delivery t that leaves it, and the containers, as in ctx
Step(t, ctx) ==
    /\ deliveries' = [deliveries EXCEPT ![t] = ctx.d]
    /\ StoreFailures(deliveries', MaxTasks) <= MaxStoreFailures
    /\ cosmos' = ctx.c
    /\ UNCHANGED <<call, service, stopping, last_broadcast, n_tasks, n_events>>

ProcessStart(t, io) ==
    /\ deliveries[t].pc = "spawned"
    /\ Step(t, process_start([d |-> deliveries[t], c |-> cosmos], io, service))

\* mutant: an exception of the POST reaches the dispatcher and ends it
PostReturns_uncaught(t, outcome, io) ==
    /\ deliveries[t].pc = "posting"
    /\ LET ctx == post_returns([d |-> deliveries[t], c |-> cosmos], outcome, io) IN
        /\ deliveries' = [deliveries EXCEPT ![t] = ctx.d]
        /\ StoreFailures(deliveries', MaxTasks) <= MaxStoreFailures
        /\ cosmos' = ctx.c
    /\ service' = IF outcome.kind = "raised"
                  THEN [service EXCEPT !.workers = [i \in DOMAIN @ |-> "finished"]]
                  ELSE service
    /\ UNCHANGED <<call, stopping, last_broadcast, n_tasks, n_events>>

PostReturns(t, outcome, io) ==
    /\ deliveries[t].pc = "posting"
    /\ Step(t, post_returns([d |-> deliveries[t], c |-> cosmos], outcome, io))

SleepReturns(t, io) ==
    /\ deliveries[t].pc = "sleeping"
    /\ Step(t, sleep_returns([d |-> deliveries[t], c |-> cosmos], io, service))

\* routers/webhooks.py update_webhook with {"active": active}
SetActive(w, tenant_id, active) ==
    /\ get_webhook(cosmos, w, tenant_id, TRUE) # None
    /\ cosmos.webhooks[w].is_active # active
    /\ cosmos' = update_webhook(cosmos, w, tenant_id, [is_active |-> active], TRUE)
    /\ UNCHANGED <<call, service, deliveries, stopping, last_broadcast, n_tasks, n_events>>

\* routers/webhooks.py delete_webhook
Delete(w, tenant_id) ==
    /\ get_webhook(cosmos, w, tenant_id, TRUE) # None
    /\ cosmos' = delete_webhook(cosmos, w, tenant_id, TRUE)
    /\ UNCHANGED <<call, service, deliveries, stopping, last_broadcast, n_tasks, n_events>>

(***************************************************************************)
(* Specifications.  Each one bounds the run with a record of limits and    *)
(* draws the inputs of the actions from its own sets.                      *)
(***************************************************************************)
Workers == 1..MaxWorkers

\* the ledger and delivery steps shared by the specifications
Lifecycle(lim) ==
    \/ Start(lim)
    \/ Stop
    \/ \E i \in Workers : WorkerExit(i)
    \/ StopResume

Edits ==
    \/ \E w \in WebhookIds, tn \in Tenants, a \in BOOLEAN : SetActive(w, tn, a)
    \/ \E w \in WebhookIds, tn \in Tenants : Delete(w, tn)

Delivery(outcomes, ios) ==
    \/ \E i \in Workers : Dispatch(i)
    \/ \E t \in TaskIds, io \in ios : ProcessStart(t, io)
    \/ \E t \in TaskIds, o \in outcomes, io \in ios : PostReturns(t, o, io)
    \/ \E t \in TaskIds, io \in ios : SleepReturns(t, io)

\* SpecRetry: the deliveries to one subscription of tenant t1, under every
\* outcome of the POST, store failures, edits of the subscription and stop()
RetryLimits == [tasks |-> RetryTasks, events |-> RetryTasks, workers |-> MaxWorkers]

RetryStore == [w \in {"w1"} |->
                 [tenant_id |-> "t1", is_active |-> TRUE, event_types |-> {DocStar},
                  stats |-> ZeroStats, url |-> "u1"]]

InitRetry == InitWith(RetryStore)

RetryOutcomes == {Response(200), Response(500), TimeoutException}

NextRetry ==
    \/ Lifecycle(RetryLimits)
    \/ Edits
    \/ \E ord \in Orderings(WebhookIds) :
          Broadcast(DocAdded, "t1", TRUE, TRUE, ord, RetryLimits)
    \/ Delivery(RetryOutcomes, {AllOk})

SpecRetry == InitRetry /\ [][NextRetry]_vars

\* SpecMatch: broadcasts of every event type for both tenants over every store
\* of at most two subscriptions, with edits of the subscriptions in between
MatchLimits == [tasks |-> MaxTasks, events |-> MaxEvents, workers |-> MaxWorkers]

MatchTypeSets == {{DocAdded}, {DocStar}, {DocAdded, DocStar}, {DocAddedStar}}

InitMatch == \E store \in Stores(MatchTypeSets) : InitWith(store)

NextMatch ==
    \/ Lifecycle(MatchLimits)
    \/ Edits
    \/ \E event_type \in EventTypes, tn \in Tenants, ord \in Orderings(WebhookIds) :
          Broadcast(event_type, tn, TRUE, TRUE, ord, MatchLimits)
    \/ \E i \in Workers : Dispatch(i)

SpecMatch == InitMatch /\ [][NextMatch]_vars

\* SpecTenant: two tenants, each with one subscription to 'd.*'; 'd.a' is
\* broadcast for either tenant while the subscriptions are edited and the
\* deliveries run; the service is not stopped
TenantLimits == [tasks |-> MaxTasks, events |-> MaxTasks, workers |-> MaxWorkers]

TenantStore ==
    [w \in WebhookIds |->
        [tenant_id |-> IF w = "w1" THEN "t1" ELSE "t2", is_active |-> TRUE,
         event_types |-> {DocStar}, stats |-> ZeroStats, url |-> "u1"]]

InitTenant == InitWith(TenantStore)

TenantOutcomes == {Response(200), Response(500)}

NextTenant ==
    \/ Start(TenantLimits)
    \/ Edits
    \/ \E tn \in Tenants, ord \in Orderings(WebhookIds) :
          Broadcast(DocAdded, tn, TRUE, TRUE, ord, TenantLimits)
    \/ Delivery(TenantOutcomes, {AllOk})

SpecTenant == InitTenant /\ [][NextTenant]_vars

(***************************************************************************)
(* Properties of one delivery (SpecRetry)                                  *)
(***************************************************************************)
\* number of entries of a bag that satisfy P
BagCount(B, P(_)) ==
    LET S == {e \in BagToSet(B) : P(e)}
    IN BagCardinality([e \in S |-> B[e]])

Started(t) == deliveries[t].task # None

\* a task is the delivery of one event to one subscription
OfTask(t, e_webhook_id, e_event_id) ==
    /\ e_webhook_id = deliveries[t].task[1].webhook_id
    /\ e_event_id = deliveries[t].task[1].event.event_id

LogCount(t) ==
    BagCount(cosmos.webhook_logs, LAMBDA e : OfTask(t, e.webhook_id, e.event_id))

DlqCount(t) ==
    BagCount(cosmos.webhook_dlq, LAMBDA e : OfTask(t, e.webhook_id, e.event.event_id))

Is2xx(outcome) ==
    /\ outcome.kind = "response"
    /\ outcome.status_code[1] >= 200
    /\ outcome.status_code[1] < 300

IsNon2xxAnswer(outcome) == outcome.kind = "response" /\ ~Is2xx(outcome)

AllAnsweredNon2xx(t) ==
    \A i \in DOMAIN deliveries[t].attempts : IsNon2xxAnswer(deliveries[t].attempts[i])

\* C1: a task whose subscription resolved as existing and active and whose
\* endpoint answered every POST so far with a non-2xx status makes at most 4
\* attempts, has slept 1s, 5s, 25s (in that order) after attempts 1, 2, 3, does
\* not sleep after the 4th, and ends only after the 4th, with exactly one
\* dead-letter entry.
C1_RetryBudget ==
    \A t \in TaskIds :
        (Started(t) /\ deliveries[t].webhook # None /\ AllAnsweredNon2xx(t)) =>
            LET d == deliveries[t]
                n == Len(d.attempts)
            IN /\ n <= 4
               /\ d.pc = "posting" => d.sleeps = SubSeq(<<1, 5, 25>>, 1, n)
               /\ d.pc = "sleeping" => n <= 3 /\ d.sleeps = SubSeq(<<1, 5, 25>>, 1, n)
               /\ d.pc = "done" => n = 4 /\ d.sleeps = <<1, 5, 25>> /\ DlqCount(t) = 1
               /\ d.pc # "done" => DlqCount(t) = 0

C1_Witness ==
    \E t \in TaskIds :
        /\ deliveries[t].pc = "done"
        /\ deliveries[t].webhook # None
        /\ Len(deliveries[t].attempts) = 4
        /\ AllAnsweredNon2xx(t)
        /\ DlqCount(t) = 1

\* C2: a task that ended with a success made its only successful attempt last,
\* has one log entry per attempt made, and no dead-letter entry.
C2_SuccessStopsRetries ==
    \A t \in TaskIds :
        (deliveries[t].pc = "done" /\ deliveries[t].success) =>
            LET d == deliveries[t]
                k == Len(d.attempts)
            IN /\ k \in 1..4
               /\ Is2xx(d.attempts[k])
               /\ \A i \in 1..(k - 1) : ~Is2xx(d.attempts[i])
               /\ LogCount(t) = k
               /\ DlqCount(t) = 0

\* the error message _attempt_delivery reports, or the exception raised, for an outcome
ErrorOf(outcome) ==
    IF outcome.kind = "response" THEN "HTTP " \o ToString(outcome.status_code[1])
    ELSE IF outcome.kind = "timeout" THEN "Timeout after 10.0s"
    ELSE IF outcome.kind = "request_error" THEN "Request error: detail"
    ELSE "'NoneType' object has no attribute 'post'"

\* C3: every dead-letter entry belongs to a task that made all 4 attempts
\* without a success, carries the error of the 4th attempt and processed = FALSE;
\* no task has more than one entry.
C3_DeadLetterOnlyAfterExhaustion ==
    /\ \A e \in BagToSet(cosmos.webhook_dlq) :
          /\ e.processed = FALSE
          /\ \E t \in TaskIds :
                /\ Started(t)
                /\ OfTask(t, e.webhook_id, e.event.event_id)
                /\ Len(deliveries[t].attempts) = 4
                /\ \A i \in 1..4 : ~Is2xx(deliveries[t].attempts[i])
                /\ ~deliveries[t].success
                /\ e.error = ErrorOf(deliveries[t].attempts[4])
    /\ \A t \in TaskIds : Started(t) => DlqCount(t) <= 1

\* a dead-letter entry whose last attempt failed differently from the first
C3_Witness ==
    \E t \in TaskIds :
        /\ Started(t)
        /\ DlqCount(t) = 1
        /\ Len(deliveries[t].attempts) = 4
        /\ deliveries[t].attempts[1] # deliveries[t].attempts[4]

\* C4: at every point, the log entries of a task are as many as the attempts it
\* has completed (an attempt is completed when its POST was answered, timed out
\* or failed in transport).
C4_OneLogPerAttempt ==
    \A t \in TaskIds :
        Started(t) =>
            LogCount(t) = Cardinality({i \in DOMAIN deliveries[t].attempts :
                                          deliveries[t].attempts[i].kind # "raised"})

\* the subscription of task t is missing, or inactive, in the store
SubscriptionMissingOrInactive(t) ==
    LET task == deliveries[t].task[1] IN
    ~\E w \in DOMAIN cosmos.webhooks :
        /\ w = task.webhook_id
        /\ cosmos.webhooks[w].tenant_id = task.tenant_id
        /\ cosmos.webhooks[w].is_active

\* C5: a task that starts while its subscription is missing or inactive ends at
\* once, without an attempt, a sleep or any write to the store (no log entry,
\* no stats update, no dead-letter entry); and a task that has ended does
\* nothing more.
C5_step ==
    \A t \in TaskIds :
        /\ (deliveries[t].pc = "spawned" /\ deliveries'[t].pc # "spawned"
                /\ SubscriptionMissingOrInactive(t)) =>
              /\ deliveries'[t].pc = "done"
              /\ deliveries'[t].webhook = None
              /\ deliveries'[t].attempts = <<>>
              /\ deliveries'[t].sleeps = <<>>
              /\ cosmos' = cosmos
        /\ (deliveries[t].pc = "done" /\ deliveries[t].attempts = <<>>) =>
              /\ deliveries'[t] = deliveries[t]
              /\ LogCount(t)' = 0
              /\ DlqCount(t)' = 0

C5_SilentDrop == [][C5_step]_vars

\* a task was dropped for a subscription that exists but is inactive
C5_Witness ==
    \E t \in TaskIds :
        /\ deliveries[t].pc = "done"
        /\ deliveries[t].attempts = <<>>
        /\ deliveries[t].task[1].webhook_id \in DOMAIN cosmos.webhooks
        /\ ~cosmos.webhooks[deliveries[t].task[1].webhook_id].is_active

(***************************************************************************)
(* Properties of one broadcast (SpecMatch)                                 *)
(***************************************************************************)
\* the step is a call of broadcast_event
BroadcastStep == n_events' = n_events + 1

\* the delivery tasks the step appended to the queue
NewTasks ==
    SubSeq(service'._delivery_queue, Len(service._delivery_queue) + 1,
           Len(service'._delivery_queue))

NewTasksFor(w) == {i \in DOMAIN NewTasks : NewTasks[i].webhook_id = w}

\* the active subscriptions of the tenant that hold event type or pattern p
Holding(p, tenant_id) ==
    {w \in DOMAIN cosmos.webhooks :
        /\ cosmos.webhooks[w].tenant_id = tenant_id
        /\ cosmos.webhooks[w].is_active
        /\ p \in cosmos.webhooks[w].event_types}

\* the pattern made of the text of the event type before its first dot and '.*'
PrefixPattern(event_type) == split0(event_type) \o StarSuffix

\* the active subscriptions of the tenant that are subscribed to the event type
Matching(event_type, tenant_id) ==
    Holding(event_type, tenant_id) \cup Holding(PrefixPattern(event_type), tenant_id)

\* every task in the queue or taken from it
AllTasks ==
    Range(service._delivery_queue)
        \cup {deliveries[t].task[1] : t \in {u \in TaskIds : Started(u)}}

\* C6: a broadcast appends to the queue a task carrying the event and the
\* tenant for every active subscription of the tenant that holds the event type
\* or '<text before its first dot>.*', appends tasks for no other subscription,
\* and returns the number of tasks it appended; with no such subscription it
\* appends nothing and returns 0.
C6_step ==
    BroadcastStep =>
        LET b == last_broadcast'
            M == Matching(b.event_type, b.tenant_id)
        IN /\ M = {NewTasks[i].webhook_id : i \in DOMAIN NewTasks}
           /\ \A i \in DOMAIN NewTasks :
                 /\ NewTasks[i].event.event_id = b.event_id
                 /\ NewTasks[i].event.event_type = b.event_type
                 /\ NewTasks[i].tenant_id = b.tenant_id
           /\ b.count = Len(NewTasks)
           /\ M = {} => (service'._delivery_queue = service._delivery_queue /\ b.count = 0)

C6_BroadcastEnqueuesMatching == [][C6_step]_vars

\* a broadcast that found two subscriptions, one by the exact type and one by
\* the wildcard pattern only
C6_Witness ==
    /\ last_broadcast.count = 2
    /\ \E t1, t2 \in AllTasks :
          /\ t1.event.event_id = last_broadcast.event_id
          /\ t2.event.event_id = last_broadcast.event_id
          /\ t1.webhook_id \in DOMAIN cosmos.webhooks
          /\ t2.webhook_id \in DOMAIN cosmos.webhooks
          /\ cosmos.webhooks[t1.webhook_id].event_types = {last_broadcast.event_type}
          /\ cosmos.webhooks[t2.webhook_id].event_types = {DocStar}

\* C7: a subscription both queries of a broadcast return gets exactly one
\* task of that broadcast, and the count returned is the number of distinct
\* subscriptions notified.
C7_step ==
    BroadcastStep =>
        LET b == last_broadcast'
            exact == Holding(b.event_type, b.tenant_id)
            wildcard == Holding(PrefixPattern(b.event_type), b.tenant_id)
        IN /\ \A w \in exact \cap wildcard : Cardinality(NewTasksFor(w)) = 1
           /\ b.count = Cardinality(exact \cup wildcard)

C7_NotifiedOnce == [][C7_step]_vars

\* a broadcast of 'd.a' notified once a subscription holding 'd.a' and 'd.*'
C7_Witness ==
    /\ last_broadcast.event_type = DocAdded
    /\ last_broadcast.count = 1
    /\ \E t \in AllTasks :
          /\ t.event.event_id = last_broadcast.event_id
          /\ t.webhook_id \in DOMAIN cosmos.webhooks
          /\ cosmos.webhooks[t.webhook_id].event_types = {DocAdded, DocStar}
          /\ cosmos.webhooks[t.webhook_id].is_active

\* C8: a broadcast appends no task for a subscription that is inactive when it
\* runs.
C8_step ==
    BroadcastStep =>
        \A w \in DOMAIN cosmos.webhooks :
            ~cosmos.webhooks[w].is_active => NewTasksFor(w) = {}

C8_InactiveNeverEnqueued == [][C8_step]_vars

\* after a broadcast, no task at all exists for an inactive subscription of the
\* tenant that holds the event type
C8_Witness ==
    /\ last_broadcast.event_id > 0
    /\ \E w \in DOMAIN cosmos.webhooks :
          /\ ~cosmos.webhooks[w].is_active
          /\ cosmos.webhooks[w].tenant_id = last_broadcast.tenant_id
          /\ \/ last_broadcast.event_type \in cosmos.webhooks[w].event_types
             \/ PrefixPattern(last_broadcast.event_type) \in cosmos.webhooks[w].event_types
          /\ \A t \in AllTasks : t.webhook_id # w

\* C10: a broadcast of E appends a task for every active subscription of the
\* tenant that holds a pattern P ending in '.*' with _matches_wildcard(E, [P]).
C10_step ==
    BroadcastStep =>
        LET b == last_broadcast' IN
        \A w \in DOMAIN cosmos.webhooks :
            (/\ cosmos.webhooks[w].tenant_id = b.tenant_id
             /\ cosmos.webhooks[w].is_active
             /\ \E P \in cosmos.webhooks[w].event_types :
                   endswith(P, StarSuffix) /\ matches_wildcard(b.event_type, {P}))
                => NewTasksFor(w) # {}

C10_WildcardEquivalence == [][C10_step]_vars

(***************************************************************************)
(* Tenant isolation (SpecTenant)                                           *)
(***************************************************************************)
\* the tenant that owns subscription w: the tenant_id it was created with,
\* which no update changes
Owner(w) == TenantStore[w].tenant_id

\* the deliveries of events of the owner of w to w that ran to a stats update
CountedDeliveries(w) ==
    {t \in TaskIds :
        /\ Started(t)
        /\ deliveries[t].task[1].webhook_id = w
        /\ deliveries[t].task[1].event.tenant_id = Owner(w)
        /\ deliveries[t].pc = "done"
        /\ deliveries[t].attempts # <<>>}

\* C9: every delivery task, HTTP attempt, log entry, dead-letter entry and
\* stats update for a subscription comes from an event broadcast for the
\* tenant that owns the subscription, and carries that tenant's id.
C9_TenantIsolation ==
    /\ \A task \in AllTasks :
          /\ task.tenant_id = task.event.tenant_id
          /\ Owner(task.webhook_id) = task.event.tenant_id
    /\ \A t \in TaskIds :
          (Started(t) /\ (deliveries[t].pc \in {"posting", "sleeping"}
                            \/ deliveries[t].attempts # <<>>)) =>
              /\ deliveries[t].webhook # None
              /\ deliveries[t].webhook[1].tenant_id = deliveries[t].task[1].event.tenant_id
    /\ \A e \in BagToSet(cosmos.webhook_logs) :
          /\ e.tenant_id = Owner(e.webhook_id)
          /\ \E task \in AllTasks :
                /\ task.webhook_id = e.webhook_id
                /\ task.event.event_id = e.event_id
                /\ task.event.tenant_id = Owner(e.webhook_id)
    /\ \A e \in BagToSet(cosmos.webhook_dlq) :
          /\ e.tenant_id = Owner(e.webhook_id)
          /\ e.event.tenant_id = Owner(e.webhook_id)
    /\ \A w \in DOMAIN cosmos.webhooks :
          cosmos.webhooks[w].stats.total_deliveries <= Cardinality(CountedDeliveries(w))

\* an event of tenant t1 was delivered to w1 until it was dead-lettered while
\* w2 of tenant t2, subscribed to the same pattern and active, saw nothing
C9_Witness ==
    /\ \E t \in TaskIds :
          /\ Started(t)
          /\ deliveries[t].task[1].event.tenant_id = "t1"
          /\ deliveries[t].task[1].webhook_id = "w1"
          /\ DlqCount(t) = 1
    /\ "w2" \in DOMAIN cosmos.webhooks
    /\ cosmos.webhooks["w2"].is_active
    /\ cosmos.webhooks["w2"].stats = ZeroStats
    /\ \A task \in AllTasks : task.webhook_id # "w2"
    /\ \A e \in BagToSet(cosmos.webhook_logs) : e.webhook_id # "w2"

(***************************************************************************)
(* The match-all pattern (SpecStar)                                        *)
(***************************************************************************)
\* SpecStar: broadcasts over stores whose subscriptions hold '*' or 'd.*'
StarTypeSets == {{Star}, {DocStar}}

InitStar == \E store \in Stores(StarTypeSets) : InitWith(store)

NextStar ==
    \/ Lifecycle(MatchLimits)
    \/ Edits
    \/ \E event_type \in EventTypes, tn \in Tenants, ord \in Orderings(WebhookIds) :
          Broadcast(event_type, tn, TRUE, TRUE, ord, MatchLimits)
    \/ \E i \in Workers : Dispatch(i)

SpecStar == InitStar /\ [][NextStar]_vars

\* the event type has a dot
DotNamespaced(event_type) == \E i \in DOMAIN event_type : event_type[i] = Dot

\* C11: _matches_wildcard is true for every event type when '*' is among the
\* patterns, and a broadcast of a dot-namespaced event type appends no task
\* for an active subscription of the tenant whose only pattern is '*'.
C11_step ==
    /\ \A E \in EventTypes \cup {NoDot} : matches_wildcard(E, {Star, DocAdded})
    /\ (BroadcastStep /\ DotNamespaced(last_broadcast'.event_type)) =>
          \A w \in DOMAIN cosmos.webhooks :
              cosmos.webhooks[w].event_types = {Star} => NewTasksFor(w) = {}

C11_StarNotQueried == [][C11_step]_vars

\* after a broadcast for its tenant, an active subscription to '*' has no task
C11_Witness ==
    /\ last_broadcast.event_id > 0
    /\ DotNamespaced(last_broadcast.event_type)
    /\ \E w \in DOMAIN cosmos.webhooks :
          /\ cosmos.webhooks[w].is_active
          /\ cosmos.webhooks[w].tenant_id = last_broadcast.tenant_id
          /\ cosmos.webhooks[w].event_types = {Star}
          /\ matches_wildcard(last_broadcast.event_type, cosmos.webhooks[w].event_types)
          /\ \A t \in AllTasks : t.webhook_id # w

(***************************************************************************)
(* The producer's view of a broadcast (SpecProducer)                       *)
(***************************************************************************)
\* SpecProducer: 'd.a' is broadcast to a subscription to 'd.a' and one to
\* 'd.*' while either query of the subscription store may fail, and the
\* deliveries run
ProducerStore ==
    [w \in WebhookIds |->
        [tenant_id |-> "t1", is_active |-> TRUE,
         event_types |-> IF w = "w1" THEN {DocAdded} ELSE {DocStar}, stats |-> ZeroStats, url |-> "u1"]]

InitProducer == InitWith(ProducerStore)

NextProducer ==
    \/ Start(MatchLimits)
    \/ \E ok1, ok2 \in BOOLEAN, ord \in Orderings(WebhookIds) :
          Broadcast(DocAdded, "t1", ok1, ok2, ord, MatchLimits)
    \/ BroadcastStoreRaises(DocAdded, "t1", MatchLimits)
    \/ Delivery(TenantOutcomes, {AllOk})

SpecProducer == InitProducer /\ [][NextProducer]_vars

\* what every broadcast does, whatever the store does: no delivery has moved
\* and nothing was written when it returns, the count it returns is the number
\* of tasks it enqueued, and no later step changes what it returned
FireAndForget ==
    /\ BroadcastStep =>
          /\ deliveries' = deliveries
          /\ cosmos' = cosmos
          /\ last_broadcast'.count = Len(NewTasks)
    /\ ~BroadcastStep => last_broadcast' = last_broadcast

\* C12 as stated: fire-and-forget, and a broadcast during which a query of
\* the subscription store failed returns 0.
C12_step_stated ==
    /\ FireAndForget
    /\ (BroadcastStep /\ ~last_broadcast'.ok) => last_broadcast'.count = 0

C12_FireAndForget_stated == [][C12_step_stated]_vars

\* C12, amended: fire-and-forget, and a broadcast returns 0 when both queries
\* failed or one raised; when one query failed and the other found
\* subscriptions it enqueues tasks for those and returns their number.
C12_step ==
    /\ FireAndForget
    /\ (BroadcastStep /\ ~last_broadcast'.ok1 /\ ~last_broadcast'.ok2) =>
          (last_broadcast'.count = 0 /\ NewTasks = <<>>)
    /\ (BroadcastStep /\ last_broadcast'.ok1 # last_broadcast'.ok2) =>
          last_broadcast'.count =
              Cardinality(Holding(IF last_broadcast'.ok1 THEN last_broadcast'.event_type
                                  ELSE PrefixPattern(last_broadcast'.event_type),
                                  last_broadcast'.tenant_id))

C12_FireAndForget == [][C12_step]_vars

\* the only task of a broadcast whose exact query failed was dead-lettered, and
\* the producer still holds the count 1 it was returned
C12_Witness ==
    /\ last_broadcast.count = 1
    /\ ~last_broadcast.ok1
    /\ last_broadcast.ok2
    /\ \E t \in TaskIds :
          /\ Started(t)
          /\ deliveries[t].task[1].event.event_id = last_broadcast.event_id
          /\ DlqCount(t) = 1

(***************************************************************************)
(* Lifecycle (SpecRetry, SpecLifecycle)                                    *)
(***************************************************************************)
\* C13: a delivery whose backoff sleep ends after stop() has returned (the
\* service is not running and no stop() is suspended) ends there, without
\* another call of _attempt_delivery.
C13_step ==
    \A t \in TaskIds :
        (/\ deliveries[t].pc = "sleeping"
         /\ ~service._running
         /\ stopping = None
         /\ deliveries'[t] # deliveries[t]) =>
            /\ deliveries'[t].pc = "done"
            /\ deliveries'[t].attempts = deliveries[t].attempts

C13_SleepObservesStop == [][C13_step]_vars

\* SpecLifecycle: start(), stop() and broadcasts to one subscription in any
\* order, the service being started up to MaxWorkers + 1 times, with the
\* dispatcher taking the tasks from the queue and the deliveries running
LifeLimits == [tasks |-> RetryTasks, events |-> RetryTasks, workers |-> MaxWorkers + 1]

LifeWorkers == 1..LifeLimits.workers

InitLifecycle == InitWith(RetryStore)

NextLifecycle ==
    \/ Start(LifeLimits)
    \/ Stop
    \/ \E i \in LifeWorkers : WorkerExit(i)
    \/ StopResume
    \/ \E ord \in Orderings(WebhookIds) :
          Broadcast(DocAdded, "t1", TRUE, TRUE, ord, LifeLimits)
    \/ \E i \in LifeWorkers : Dispatch(i)
    \/ \E t \in TaskIds : ProcessStart(t, AllOk)
    \/ \E t \in TaskIds, o \in TenantOutcomes : PostReturns(t, o, AllOk)
    \/ \E t \in TaskIds : SleepReturns(t, AllOk)

SpecLifecycle == InitLifecycle /\ [][NextLifecycle]_vars

\* the step is the return of a stop() that was suspended on the dispatcher
StopReturns == stopping # None /\ stopping' = None

\* C14: when stop() returns, the service is not running, the dispatcher task
\* it awaited and the one the service holds are finished, and the HTTP client
\* is released.
C14_step ==
    StopReturns =>
        /\ ~service'._running
        /\ service'.workers[stopping[1]] = "finished"
        /\ service'._worker_task # None
        /\ service'.workers[service'._worker_task[1]] = "finished"
        /\ service'._http_client = None

C14_StopOrder == [][C14_step]_vars

\* the dispatcher tasks that have not been cancelled and have not ended
LiveDispatchers(svc) == {i \in DOMAIN svc.workers : svc.workers[i] = "running"}

\* C15: in every state of the service, start() on a service that is not
\* running leaves it running with an HTTP client and exactly one live
\* dispatcher, the one in _worker_task; start() on a running service changes
\* nothing; and a second start() after a first changes nothing.
C15_StartIdempotent ==
    LET once == start(service) IN
    /\ ~service._running =>
          /\ once._running
          /\ once._http_client # None
          /\ once._worker_task # None
          /\ LiveDispatchers(once) = {once._worker_task[1]}
          /\ Len(once.workers) = Len(service.workers) + 1
    /\ service._running => once = service
    /\ start(once) = once

\* the service was started, stopped and started again
C15_Witness ==
    /\ service._running
    /\ service._http_client # None
    /\ Len(service.workers) = 2
    /\ service.workers[1] = "finished"
    /\ service._worker_task = Some(2)
    /\ start(service) = service

\* C16: a deliver_event on a service that is not running (never started,
\* stopped, or being stopped) leaves the service running, with a new
\* dispatcher and an HTTP client, and the task at the end of the queue.
C16_step ==
    (BroadcastStep /\ ~service._running /\ last_broadcast'.count > 0) =>
        /\ service'._running
        /\ service'._http_client # None
        /\ Len(service'.workers) = Len(service.workers) + 1
        /\ service'._worker_task = Some(Len(service'.workers))
        /\ service'.workers[Len(service'.workers)] = "running"
        /\ Len(NewTasks) = last_broadcast'.count
        /\ \A i \in DOMAIN NewTasks : NewTasks[i].event.event_id = last_broadcast'.event_id

C16_AutoStart == [][C16_step]_vars

\* a task was enqueued while stop() was suspended: the service runs again
C16_Witness ==
    /\ stopping # None
    /\ service._running
    /\ service._worker_task # stopping
    /\ \E i \in DOMAIN service._delivery_queue :
          service._delivery_queue[i].event.event_id = last_broadcast.event_id

(***************************************************************************)
(* The queue and the concurrent deliveries (SpecTenant, SpecProducer)      *)
(***************************************************************************)
\* the positions of the queue that hold task number t (tasks are numbered in
\* the order deliver_event created them)
QueuedAt(svc, t) == {i \in DOMAIN svc._delivery_queue : svc._delivery_queue[i].tid = t}

\* the step takes a task from the queue
DequeueStep == Len(service'._delivery_queue) < Len(service._delivery_queue)

\* C17: the task a dispatcher takes is the oldest of the queue, and it starts
\* one delivery of that task, which had none; no other step starts a
\* delivery; every task created is either once in the queue or has its one
\* delivery, and every task still queued is younger than every task started.
C17_step ==
    /\ DequeueStep =>
          LET task == Head(service._delivery_queue) IN
          /\ service'._delivery_queue = Tail(service._delivery_queue)
          /\ \A i \in DOMAIN service._delivery_queue : task.tid <= service._delivery_queue[i].tid
          /\ ~Started(task.tid)
          /\ deliveries'[task.tid].task = Some(task)
          /\ deliveries'[task.tid].pc = "spawned"
          /\ \A t \in TaskIds \ {task.tid} : deliveries'[t] = deliveries[t]
    /\ ~DequeueStep =>
          \A t \in TaskIds :
              /\ Started(t) => deliveries'[t].task = deliveries[t].task
              /\ deliveries'[t].pc = "spawned" => deliveries[t].pc = "spawned"
    /\ \A t \in TaskIds :
          IF t <= n_tasks'
          THEN IF deliveries'[t].task # None
               THEN QueuedAt(service', t) = {}
               ELSE Cardinality(QueuedAt(service', t)) = 1
          ELSE deliveries'[t].task = None /\ QueuedAt(service', t) = {}
    /\ \A t \in TaskIds, i \in DOMAIN service'._delivery_queue :
          deliveries'[t].task # None => t < service'._delivery_queue[i].tid

C17_FifoExactlyOnce == [][C17_step]_vars

\* two tasks were queued together and the dispatcher has taken the older one
C17_Witness ==
    /\ n_tasks = 2
    /\ deliveries[1].pc = "spawned"
    /\ ~Started(2)
    /\ QueuedAt(service, 2) = {1}

\* delivery t is suspended in its HTTP call or in a backoff sleep
InFlight(t) == deliveries[t].pc \in {"posting", "sleeping"}

\* C18: while a delivery is suspended in its HTTP call or in a backoff sleep,
\* a running dispatcher can take the next task from the queue and every other
\* delivery can take its next step (start, get the answer of its POST, end its
\* sleep).
C18_Independent ==
    \A t \in TaskIds :
        InFlight(t) =>
            /\ \A i \in DOMAIN service.workers :
                  (service.workers[i] = "running" /\ service._delivery_queue # <<>>) =>
                      ENABLED Dispatch(i)
            /\ \A u \in TaskIds \ {t} :
                  /\ deliveries[u].pc = "spawned" => ENABLED ProcessStart(u, AllOk)
                  /\ deliveries[u].pc = "posting" =>
                        \A o \in TenantOutcomes : ENABLED PostReturns(u, o, AllOk)
                  /\ deliveries[u].pc = "sleeping" => ENABLED SleepReturns(u, AllOk)

\* the task enqueued second was delivered while the task enqueued first is
\* still in a backoff sleep
C18_Witness ==
    /\ deliveries[1].pc = "sleeping"
    /\ deliveries[2].pc = "done"
    /\ deliveries[2].success

\* the tasks for subscription w that ended with a successful attempt
Delivered(w) ==
    {t \in TaskIds : /\ Started(t)
                     /\ deliveries[t].task[1].webhook_id = w
                     /\ deliveries[t].pc = "done"
                     /\ deliveries[t].success}

\* the tasks for subscription w that ended after a 4th failed attempt
Exhausted(w) ==
    {t \in TaskIds : /\ Started(t)
                     /\ deliveries[t].task[1].webhook_id = w
                     /\ deliveries[t].pc = "done"
                     /\ ~deliveries[t].success
                     /\ Len(deliveries[t].attempts) = 4}

\* C19: the stats of a subscription count one success per task that ended with
\* a successful attempt (its last and only successful one) and one failure per
\* task that ended after its 4th failed attempt; total_deliveries is their sum;
\* attempts of tasks still running, and failed attempts before a success,
\* count nothing.
C19_StatsOncePerTask ==
    /\ \A w \in DOMAIN cosmos.webhooks :
          LET stats == cosmos.webhooks[w].stats IN
          /\ stats.successful_deliveries = Cardinality(Delivered(w))
          /\ stats.failed_deliveries = Cardinality(Exhausted(w))
          /\ stats.total_deliveries = Cardinality(Delivered(w)) + Cardinality(Exhausted(w))
          /\ Delivered(w) \cap Exhausted(w) = {}
    /\ \A t \in TaskIds :
          (Started(t) /\ deliveries[t].success) =>
              LET k == Len(deliveries[t].attempts) IN
              /\ deliveries[t].pc = "done"
              /\ k >= 1
              /\ Is2xx(deliveries[t].attempts[k])
              /\ \A i \in 1..(k - 1) : ~Is2xx(deliveries[t].attempts[i])

\* one subscription got two tasks: one delivered at its third attempt, one
\* dead-lettered, while its stats count 2 deliveries
C19_Witness ==
    \E w \in DOMAIN cosmos.webhooks :
        /\ cosmos.webhooks[w].stats =
              [ZeroStats EXCEPT !.total_deliveries = 2, !.successful_deliveries = 1,
                                !.failed_deliveries = 1]
        /\ \E t \in Delivered(w) : Len(deliveries[t].attempts) = 3

(***************************************************************************)
(* Failing ledger writes (SpecLedger)                                      *)
(***************************************************************************)
\* SpecLedger: the deliveries to one subscription while writes of the log
\* entry and of the stats may fail (at most MaxStoreFailures times in a run)
LedgerIO == {io \in StoreIO : io.get_ok /\ io.dlq_ok}

NextLedger ==
    \/ Start(RetryLimits)
    \/ \E ord \in Orderings(WebhookIds) :
          Broadcast(DocAdded, "t1", TRUE, TRUE, ord, RetryLimits)
    \/ Delivery(RetryOutcomes, LedgerIO)

SpecLedger == InitRetry /\ [][NextLedger]_vars

\* what a delivery has done and will do: its position, its attempts and
\* sleeps, its result
Control(d) ==
    [pc |-> d.pc, task |-> d.task, webhook |-> d.webhook, attempt |-> d.attempt,
     attempts |-> d.attempts, sleeps |-> d.sleeps, success |-> d.success,
     last_error |-> d.last_error]

\* the results the step of delivery t would have with every store call working
WithWorkingStore(t) ==
    LET ctx == [d |-> deliveries[t], c |-> cosmos] IN
    IF deliveries[t].pc = "spawned" THEN {process_start(ctx, AllOk, service)}
    ELSE IF deliveries[t].pc = "posting"
    THEN {post_returns(ctx, o, AllOk) : o \in RetryOutcomes}
    ELSE {sleep_returns(ctx, AllOk, service)}

\* C20: every step of a delivery leaves the delivery (position, attempts,
\* sleeps, success, last error) and the dead-letter container as the same
\* step with working log and stats writes would, for the same outcome of the
\* POST.
C20_step ==
    \A t \in TaskIds :
        (deliveries'[t] # deliveries[t] /\ deliveries[t].pc \in {"spawned", "posting", "sleeping"}) =>
            \E next \in WithWorkingStore(t) :
                /\ Control(deliveries'[t]) = Control(next.d)
                /\ cosmos'.webhook_dlq = next.c.webhook_dlq

C20_LedgerFailuresSwallowed == [][C20_step]_vars

\* a task was delivered although the write of its stats failed
C20_Witness ==
    \E t \in TaskIds :
        /\ Started(t)
        /\ deliveries[t].pc = "done"
        /\ deliveries[t].success
        /\ deliveries[t].store_failures > 0
        /\ LogCount(t) = Len(deliveries[t].attempts)
        /\ cosmos.webhooks[deliveries[t].task[1].webhook_id].stats = ZeroStats

(***************************************************************************)
(* The attempt executor (SpecRetry)                                        *)
(***************************************************************************)
\* C21: every call of _attempt_delivery returns a result: none of the
\* attempts of a task ended with an exception raised out of _attempt_delivery.
C21_AttemptNeverRaises ==
    \A t \in TaskIds :
        \A i \in DOMAIN deliveries[t].attempts :
            deliveries[t].attempts[i].kind # "raised"

(***************************************************************************)
(* SpecAttempt: _attempt_delivery called once, for every subscription      *)
(* secret, attempt number and outcome of the POST                          *)
(***************************************************************************)
AttemptSecrets == {None, Some(<<>>), Some(<<"k">>)}

\* subscription documents with and without the key "secret"
AttemptWebhooks ==
    [tenant_id : {"t1"}, is_active : {TRUE}, event_types : {{DocStar}},
     stats : {ZeroStats}, url : {"u1"}, secret : AttemptSecrets]
    \cup [tenant_id : {"t1"}, is_active : {TRUE}, event_types : {{DocStar}},
          stats : {ZeroStats}, url : {"u1"}]

AttemptEvents == [event_type : {DocAdded, SpaceCreated}, event_id : {1}, tenant_id : {"t1"}]

AttemptStatusCodes == {199, 200, 204, 299, 300, 404, 500}

AttemptOutcomes ==
    {Response(code) : code \in AttemptStatusCodes} \cup {TimeoutException, RequestError}

\* the service after construction with an empty store, and the direct call c
InitCall(c) ==
    /\ service = NewService
    /\ cosmos = [webhooks |-> <<>>, webhook_logs |-> EmptyBag, webhook_dlq |-> EmptyBag]
    /\ deliveries = [t \in TaskIds |-> NoDelivery]
    /\ stopping = None
    /\ last_broadcast = NoBroadcast
    /\ n_tasks = 0
    /\ n_events = 0
    /\ call = c

InitAttempt ==
    \E webhook \in AttemptWebhooks, event \in AttemptEvents, attempt \in 0..Len(RETRY_DELAYS) :
        InitCall([op |-> "attempt", webhook |-> webhook, event |-> event,
                  attempt |-> attempt, request |-> None, outcome |-> None,
                  result |-> None])

\* _attempt_delivery up to its await of the POST
AttemptPosts ==
    /\ call.op = "attempt"
    /\ call.request = None
    /\ call' = [call EXCEPT !.request =
                    Some(attempt_headers(call.webhook, call.event, call.attempt))]
    /\ UNCHANGED <<service, cosmos, deliveries, stopping, last_broadcast, n_tasks, n_events>>

\* _attempt_delivery from the end of the POST to its return
AttemptReturns(outcome) ==
    /\ call.op = "attempt"
    /\ call.request # None
    /\ call.result = None
    /\ call' = [call EXCEPT !.outcome = Some(outcome),
                            !.result = Some(attempt_result(outcome))]
    /\ UNCHANGED <<service, cosmos, deliveries, stopping, last_broadcast, n_tasks, n_events>>

NextAttempt ==
    \/ AttemptPosts
    \/ \E outcome \in AttemptOutcomes : AttemptReturns(outcome)

SpecAttempt == InitAttempt /\ [][NextAttempt]_vars

\* the result of a returned call classifies the outcome of its POST, a timeout
\* with the message timeout_message
Classified(timeout_message) ==
    (call.op = "attempt" /\ call.result # None) =>
        LET o == call.outcome[1]
            r == call.result[1]
        IN /\ r.success <=> (o.kind = "response" /\ o.status_code[1] \in 200..299)
           /\ r.success => r.error_message = None
           /\ (o.kind = "response" /\ o.status_code[1] \notin 200..299) =>
                 /\ r.error_message = Some("HTTP " \o ToString(o.status_code[1]))
                 /\ r.status_code = o.status_code
           /\ o.kind = "timeout" =>
                 /\ r.error_message = Some(timeout_message)
                 /\ r.status_code = None
           /\ o.kind = "request_error" =>
                 /\ r.error_message = Some("Request error: detail")
                 /\ r.status_code = None

\* C22 as stated: an attempt succeeds iff the status is in [200,300); a non-2xx
\* status gives 'HTTP <code>' with the status, a timeout 'Timeout after 10s'
\* without a status, another transport error 'Request error: <detail>' without
\* a status.
C22_Classification_stated == Classified("Timeout after 10s")

\* C22: the same, with the message the code formats from HTTP_TIMEOUT = 10.0:
\* 'Timeout after 10.0s'.
C22_Classification == Classified("Timeout after 10.0s")

\* a call whose POST timed out has returned
C22_Witness ==
    /\ call.op = "attempt"
    /\ call.result # None
    /\ call.outcome[1].kind = "timeout"
    /\ ~call.result[1].success

\* the secret of the subscription of the call: None without the key
SecretOf(webhook) == IF "secret" \in DOMAIN webhook THEN webhook.secret ELSE None

\* the value of X-Webhook-Signature for the call's event under secret
SignatureHeader(secret) ==
    Some(Sha256Prefix \o generate_signature(event_items(call.event), secret))

\* C24 as stated: the POST carries X-Webhook-Signature = 'sha256=' + sign(event,
\* secret) if and only if the subscription has a secret.
C24_SignedIffSecret_stated ==
    (call.op = "attempt" /\ call.request # None) =>
        LET secret == SecretOf(call.webhook)
        IN call.request[1].X_Webhook_Signature =
              IF secret # None THEN SignatureHeader(secret[1]) ELSE None

\* C24: the POST carries the header if and only if the subscription has a
\* secret that is not the empty string; a subscription whose secret is ""
\* is sent no signature header, like one without a secret.
C24_SignedIffSecret ==
    (call.op = "attempt" /\ call.request # None) =>
        LET secret == SecretOf(call.webhook)
        IN call.request[1].X_Webhook_Signature =
              IF secret # None /\ Len(secret[1]) > 0
              THEN SignatureHeader(secret[1]) ELSE None

\* a POST for a subscription whose secret is the empty string was sent unsigned
C24_Witness ==
    /\ call.op = "attempt"
    /\ call.request # None
    /\ SecretOf(call.webhook) = Some(<<>>)
    /\ call.request[1].X_Webhook_Signature = None

(***************************************************************************)
(* The requests an endpoint receives (SpecRetry)                           *)
(***************************************************************************)
\* C23: the k-th POST sent for a task carries X-Delivery-Attempt = k, so that
\* the endpoint sees 1, 2, 3, 4 in order without gaps or repeats, and every
\* POST carries the type and the id of the task's event.
C23_AttemptHeaders ==
    \A t \in TaskIds :
        \A k \in DOMAIN deliveries[t].requests :
            LET headers == deliveries[t].requests[k].headers
                event == deliveries[t].task[1].event
            IN /\ headers.X_Delivery_Attempt = ToString(k)
               /\ headers.X_Event_Type = event.event_type
               /\ headers.X_Event_ID = event.event_id

(***************************************************************************)
(* SpecSign: _generate_signature and verify_signature called directly: a   *)
(* payload is signed with one secret, signed again with its keys in        *)
(* another order, and a header made from the signature is verified with a  *)
(* secret                                                                  *)
(***************************************************************************)
SignKeys == {<<"a">>, <<"b">>}
SignValues == {<<"1">>, <<"2">>}

\* the dicts over these keys and values, as items in insertion order
SignPayloads ==
    {<<>>}
    \cup {<<<<k, v>>>> : k \in SignKeys, v \in SignValues}
    \cup {p \in {<<<<k1, v1>>, <<k2, v2>>>> :
                    k1 \in SignKeys, k2 \in SignKeys, v1 \in SignValues, v2 \in SignValues} :
            p[1][1] # p[2][1]}

SignSecrets == {<<>>, <<"k">>, <<"k", Nul>>, <<"s">>}

\* what the receiver finds in X-Webhook-Signature
HeaderKinds == {"valid", "altered", "truncated", "no_prefix", "other_prefix",
                "non_ascii", "empty", "none"}

\* the header of kind `kind` made from the digest `signature`
HeaderOf(kind, signature) ==
    CASE kind = "valid" -> Some(Sha256Prefix \o signature)
      [] kind = "altered" ->
            Some(Sha256Prefix \o <<IF signature[1] = "0" THEN "1" ELSE "0">> \o Tail(signature))
      [] kind = "truncated" -> Some(Sha256Prefix \o SubSeq(signature, 1, Len(signature) - 1))
      [] kind = "no_prefix" -> Some(signature)
      [] kind = "other_prefix" -> Some(<<"s", "h", "a", "5", "1", "2", "=">> \o signature)
      [] kind = "non_ascii" -> Some(Sha256Prefix \o <<EAcute>> \o Tail(signature))
      [] kind = "empty" -> Some(<<>>)
      [] kind = "none" -> None

InitSign ==
    \E payload \in SignPayloads, secret \in SignSecrets :
        InitCall([op |-> "sign", payload |-> payload, secret |-> secret,
                  signature |-> None, reordered |-> None, again |-> None,
                  kind |-> None, signature_header |-> None, verify_secret |-> None,
                  verified |-> None])

\* _generate_signature(payload, secret)
Sign ==
    /\ call.op = "sign"
    /\ call.signature = None
    /\ call' = [call EXCEPT !.signature = Some(generate_signature(call.payload, call.secret))]
    /\ UNCHANGED <<service, cosmos, deliveries, stopping, last_broadcast, n_tasks, n_events>>

\* _generate_signature called again, for the same dict built in the order `order`
SignAgain(order) ==
    /\ call.op = "sign"
    /\ call.signature # None
    /\ call.again = None
    /\ LET reordered == [i \in DOMAIN call.payload |-> call.payload[order[i]]]
       IN call' = [call EXCEPT !.reordered = Some(reordered),
                               !.again = Some(generate_signature(reordered, call.secret))]
    /\ UNCHANGED <<service, cosmos, deliveries, stopping, last_broadcast, n_tasks, n_events>>

\* verify_signature(payload, signature_header, secret) at the receiver
Verify(kind, secret) ==
    /\ call.op = "sign"
    /\ call.signature # None
    /\ call.verified = None
    /\ LET signature_header == HeaderOf(kind, call.signature[1])
       IN call' = [call EXCEPT !.kind = Some(kind),
                               !.signature_header = Some(signature_header),
                               !.verify_secret = Some(secret),
                               !.verified = Some(verify_signature(call.payload,
                                                    signature_header, secret))]
    /\ UNCHANGED <<service, cosmos, deliveries, stopping, last_broadcast, n_tasks, n_events>>

NextSign ==
    \/ Sign
    \/ \E order \in Orderings(DOMAIN call.payload) : SignAgain(order)
    \/ \E kind \in HeaderKinds, secret \in SignSecrets : Verify(kind, secret)

SpecSign == InitSign /\ [][NextSign]_vars

\* C25: a header 'sha256=' + sign(payload, secret) verifies under that secret,
\* and verify_signature returns FALSE, as a value, for every other header: a
\* digest that differs from sign(payload, secret), a missing or different
\* prefix, text that is not ASCII, an empty or absent header.
C25_RoundTrip ==
    (call.op = "sign" /\ call.verified # None) =>
        LET secret == call.verify_secret[1]
            good == Some(Sha256Prefix \o generate_signature(call.payload, secret))
        IN /\ call.verified[1] \in BOOLEAN
           /\ (call.kind = Some("valid") /\ secret = call.secret) => call.verified[1]
           /\ call.signature_header[1] = good => call.verified[1]
           /\ call.signature_header[1] # good => ~call.verified[1]

\* a header with one character of the digest altered was refused
C25_Witness ==
    /\ call.op = "sign"
    /\ call.verified = Some(FALSE)
    /\ call.kind = Some("altered")
    /\ call.verify_secret = Some(call.secret)

\* C26 as stated: a signature made with secret1 does not verify under any
\* secret2 # secret1.
C26_WrongSecret_stated ==
    (call.op = "sign" /\ call.verified # None /\ call.kind = Some("valid")
        /\ call.verify_secret[1] # call.secret) => ~call.verified[1]

\* s without the NUL characters at its end
RECURSIVE StripNul(_)
StripNul(s) ==
    IF s # <<>> /\ s[Len(s)] = Nul THEN StripNul(SubSeq(s, 1, Len(s) - 1)) ELSE s

\* C26: a signature made with secret1 does not verify under secret2 when the
\* two differ by more than NUL characters at the end; it does verify when they
\* differ only so (secrets of at most 64 bytes).
C26_WrongSecret ==
    (call.op = "sign" /\ call.verified # None /\ call.kind = Some("valid")) =>
        (call.verified[1] <=> StripNul(call.verify_secret[1]) = StripNul(call.secret))

\* a signature was refused under a secret that differs by more than padding
C26_Witness ==
    /\ call.op = "sign"
    /\ call.kind = Some("valid")
    /\ StripNul(call.verify_secret[1]) # StripNul(call.secret)
    /\ call.verified = Some(FALSE)

IsLowerHex64(s) == Len(s) = 64 /\ \A i \in DOMAIN s : s[i] \in Range(HexDigits)

\* C27: signing the same payload with the same secret again, with the keys in
\* any order, gives the same digest, and the digest is 64 lowercase hex
\* characters.
C27_Canonical ==
    /\ (call.op = "sign" /\ call.signature # None) => IsLowerHex64(call.signature[1])
    /\ (call.op = "sign" /\ call.again # None) => call.again = call.signature

\* a payload of two keys was signed again with its keys in the other order
C27_Witness ==
    /\ call.op = "sign"
    /\ call.again # None
    /\ Len(call.payload) = 2
    /\ call.reordered # Some(call.payload)
    /\ call.again = call.signature

(***************************************************************************)
(* SpecTest: the administrative test endpoint (routers/webhooks.py),       *)
(* called for either subscription by either tenant, and the delivery of    *)
(* the task it enqueues                                                    *)
(***************************************************************************)
\* "w.t" (webhook.test), the default of TestEventRequest.event_type
WebhookTest == <<"w", ".", "t">>

TestLimits == [tasks |-> RetryTasks, events |-> RetryTasks, workers |-> MaxWorkers]

\* the test request as the router receives it, and its answer
TestCall(webhook_id, tenant_id, requested, ok, status_code, event_id) ==
    [op |-> "test", webhook_id |-> webhook_id, tenant_id |-> tenant_id,
     event_type |-> requested, ok |-> ok, status_code |-> status_code,
     event_id |-> event_id]

\* mutant: the test event goes only to a subscription that holds its type
TestWebhook_matching(webhook_id, tenant_id, requested, ok, lim) ==
    LET item == get_webhook(cosmos, webhook_id, tenant_id, ok)
        event_type == IF requested = None THEN WebhookTest ELSE requested[1]
        test_event == [event_type |-> event_type, event_id |-> n_events + 1,
                       tenant_id |-> tenant_id, data |-> [test |-> TRUE]]
    IN IF item = None \/ event_type \notin item[1].event_types
       THEN /\ call' = TestCall(webhook_id, tenant_id, requested, ok, 500, None)
            /\ UNCHANGED <<service, cosmos, deliveries, stopping, last_broadcast,
                           n_tasks, n_events>>
       ELSE /\ n_events < lim.events
            /\ n_tasks < lim.tasks
            /\ ~service._running => Len(service.workers) < lim.workers
            /\ service' = deliver_event(service, n_tasks + 1, webhook_id, test_event, tenant_id)
            /\ n_tasks' = n_tasks + 1
            /\ n_events' = n_events + 1
            /\ call' = TestCall(webhook_id, tenant_id, requested, ok, 202, Some(n_events + 1))
            /\ UNCHANGED <<cosmos, deliveries, stopping, last_broadcast>>

\* routers/webhooks.py test_webhook; requested is the event_type of the request
\* body, None when the body leaves it out.  The HTTPException(404) for a
\* subscription that is not found is raised inside the try block and turned
\* into a 500 by its `except Exception`
TestWebhook(webhook_id, tenant_id, requested, ok, lim) ==
    LET item == get_webhook(cosmos, webhook_id, tenant_id, ok)
        event_type == IF requested = None THEN WebhookTest ELSE requested[1]
        test_event == [event_type |-> event_type, event_id |-> n_events + 1,
                       tenant_id |-> tenant_id, data |-> [test |-> TRUE]]
    IN IF item = None
       THEN /\ call' = TestCall(webhook_id, tenant_id, requested, ok, 500, None)
            /\ UNCHANGED <<service, cosmos, deliveries, stopping, last_broadcast,
                           n_tasks, n_events>>
       ELSE /\ n_events < lim.events
            /\ n_tasks < lim.tasks
            /\ ~service._running => Len(service.workers) < lim.workers
            /\ service' = deliver_event(service, n_tasks + 1, webhook_id, test_event, tenant_id)
            /\ n_tasks' = n_tasks + 1
            /\ n_events' = n_events + 1
            /\ call' = TestCall(webhook_id, tenant_id, requested, ok, 202, Some(n_events + 1))
            /\ UNCHANGED <<cosmos, deliveries, stopping, last_broadcast>>

\* w1 holds only "s.c", active or not; w2 holds "d.a"; both of tenant t1
TestStores ==
    {[w \in WebhookIds |->
        [tenant_id |-> "t1", is_active |-> IF w = "w1" THEN active ELSE TRUE,
         event_types |-> IF w = "w1" THEN {SpaceCreated} ELSE {DocAdded},
         stats |-> ZeroStats, url |-> "u1"]] : active \in BOOLEAN}

InitTest == \E store \in TestStores : InitWith(store)

NextTest ==
    \/ Start(TestLimits)
    \/ \E w \in WebhookIds, tn \in Tenants, requested \in {None, Some(DocAdded)},
          ok \in BOOLEAN : TestWebhook(w, tn, requested, ok, TestLimits)
    \/ Delivery(TenantOutcomes, {AllOk})

SpecTest == InitTest /\ [][NextTest]_vars

\* a step in which the test endpoint answers a request
TestStep == call' # call /\ call'.op = "test"

C28_step ==
    TestStep =>
        IF call'.ok /\ get_webhook(cosmos, call'.webhook_id, call'.tenant_id, TRUE) # None
        THEN /\ Len(NewTasks) = 1
             /\ NewTasks[1].webhook_id = call'.webhook_id
             /\ NewTasks[1].tenant_id = call'.tenant_id
             /\ NewTasks[1].event.event_type =
                    (IF call'.event_type = None THEN WebhookTest ELSE call'.event_type[1])
             /\ NewTasks[1].event.data.test = TRUE
             /\ NewTasks[1].event.tenant_id = call'.tenant_id
             /\ service'._running
             /\ call'.status_code = 202
        ELSE NewTasks = <<>>

\* C28: a test request for a subscription of the caller's tenant appends to the
\* queue exactly one task, for the named subscription, whatever event types the
\* subscription and the others hold; its event has the requested type, or
\* 'webhook.test' without one, and data.test = TRUE.  A request for a
\* subscription that is not found appends nothing.
C28_TestEndpoint == [][C28_step]_vars

\* a test event of type "d.a" for w1, which does not hold that type, went
\* through four attempts to the dead-letter container, and w2, which holds
\* it, got no task
C28_Witness ==
    \E t \in TaskIds :
        /\ Started(t)
        /\ deliveries[t].task[1].webhook_id = "w1"
        /\ deliveries[t].task[1].event.event_type = DocAdded
        /\ deliveries[t].task[1].event.data.test
        /\ DocAdded \notin cosmos.webhooks["w1"].event_types
        /\ deliveries[t].pc = "done"
        /\ Len(deliveries[t].attempts) = 4
        /\ LogCount(t) = 4
        /\ DlqCount(t) = 1
        /\ \A task \in AllTasks : task.webhook_id # "w2"

(***************************************************************************)
(* The HTTP client of a running service (SpecLifecycle)                    *)
(***************************************************************************)
\* C29: in every reachable state a running service has an open HTTP client.
C29_RunningHasClient == service._running => service._http_client # None

(***************************************************************************)
(* Two deliveries to one subscription that complete together (SpecTenant)  *)
(***************************************************************************)
\* delivery t awaits the response of its POST, and outcome o ends the task
Completing(t, o) ==
    /\ deliveries[t].pc = "posting"
    /\ Is2xx(o) \/ deliveries[t].attempt = Len(RETRY_DELAYS)

\* <<t1, o1, t2, o2>>: two deliveries to the same stored subscription whose
\* POSTs are in flight together and are answered o1 and o2, both final
CompletingPairs ==
    {p \in TaskIds \X TenantOutcomes \X TaskIds \X TenantOutcomes :
        /\ p[1] # p[3]
        /\ Completing(p[1], p[2])
        /\ Completing(p[3], p[4])
        /\ deliveries[p[1]].task[1].webhook_id = deliveries[p[3]].task[1].webhook_id
        /\ deliveries[p[1]].task[1].tenant_id = deliveries[p[3]].task[1].tenant_id
        /\ get_webhook(cosmos, deliveries[p[1]].task[1].webhook_id,
                       deliveries[p[1]].task[1].tenant_id, TRUE) # None}

\* total_deliveries of the subscription of t1 after t1 and then t2 ran from the
\* end of their POST to their end: _update_webhook_stats has no suspension
\* point, so the two runs follow each other in one order or the other
TotalAfter(t1, o1, t2, o2) ==
    LET first == post_returns([d |-> deliveries[t1], c |-> cosmos], o1, AllOk)
        second == post_returns([d |-> deliveries[t2], c |-> first.c], o2, AllOk)
    IN second.c.webhooks[deliveries[t1].task[1].webhook_id].stats.total_deliveries

TotalNow(t) == cosmos.webhooks[deliveries[t].task[1].webhook_id].stats.total_deliveries

C31_LogRecordsResult ==
    \A e \in BagToSet(cosmos.webhook_logs) :
        \E t \in TaskIds :
            /\ Started(t)
            /\ OfTask(t, e.webhook_id, e.event_id)
            /\ e.attempt + 1 \in DOMAIN deliveries[t].attempts
            /\ LET result == attempt_result(deliveries[t].attempts[e.attempt + 1])
               IN /\ e.success = result.success
                  /\ e.status_code = result.status_code
                  /\ e.error = result.error_message

(***************************************************************************)
(* SpecSnapshot: the deliveries to one signed subscription while the       *)
(* routers deactivate it, delete it, or change its url and secret          *)
(***************************************************************************)
SnapshotStore ==
    [w \in {"w1"} |->
        [tenant_id |-> "t1", is_active |-> TRUE, event_types |-> {DocStar},
         stats |-> ZeroStats, url |-> "u1", secret |-> Some(<<"k">>)]]

InitSnapshot == InitWith(SnapshotStore)

\* routers/webhooks.py update_webhook with {"url": url, "secret": secret}
SetEndpoint(w, tenant_id, url, secret) ==
    /\ get_webhook(cosmos, w, tenant_id, TRUE) # None
    /\ cosmos.webhooks[w].url # url
    /\ cosmos' = update_webhook(cosmos, w, tenant_id, [url |-> url, secret |-> Some(secret)], TRUE)
    /\ UNCHANGED <<call, service, deliveries, stopping, last_broadcast, n_tasks, n_events>>

NextSnapshot ==
    \/ Start(RetryLimits)
    \/ Edits
    \/ \E w \in WebhookIds, tn \in Tenants : SetEndpoint(w, tn, "u2", <<"s">>)
    \/ \E ord \in Orderings(WebhookIds) :
          Broadcast(DocAdded, "t1", TRUE, TRUE, ord, RetryLimits)
    \/ Delivery(TenantOutcomes, {AllOk})

SpecSnapshot == InitSnapshot /\ [][NextSnapshot]_vars

\* the request the k-th loop iteration of task t sends when it uses `webhook`
RequestWith(webhook, t, k) ==
    [url |-> webhook.url,
     headers |->
        [X_Event_Type |-> deliveries[t].task[1].event.event_type,
         X_Event_ID |-> deliveries[t].task[1].event.event_id,
         X_Delivery_Attempt |-> ToString(k),
         X_Webhook_Signature |->
            Some(Sha256Prefix \o generate_signature(
                    event_items(deliveries[t].task[1].event), webhook.secret[1]))]]

C32_step ==
    \A t \in TaskIds :
        /\ deliveries[t].webhook # None =>
              /\ deliveries'[t].webhook = deliveries[t].webhook
              /\ \A k \in DOMAIN deliveries'[t].requests :
                    deliveries'[t].requests[k] = RequestWith(deliveries[t].webhook[1], t, k)
        /\ (deliveries[t].pc = "sleeping" /\ deliveries'[t] # deliveries[t]) =>
              /\ deliveries'[t].pc = "posting"
              /\ Len(deliveries'[t].requests) = Len(deliveries[t].requests) + 1
        /\ cosmos'.webhooks # cosmos.webhooks =>
              \/ deliveries' = deliveries
              \/ \E u \in TaskIds : deliveries'[u].pc = "done" /\ deliveries[u].pc # "done"

\* C32: once a task has read its subscription it keeps that copy; every POST
\* of the task goes to the url of the copy with a signature under the secret
\* of the copy; a task that sleeps between attempts always goes on to its next
\* POST, whatever has become of the subscription; a change of the stored
\* subscription by a router changes no delivery.
C32_Snapshot == [][C32_step]_vars

\* a task sent its second request with the url and the secret it read at its
\* start, after the subscription was given another url and secret or deleted
C32_Witness ==
    \E t \in TaskIds :
        /\ Len(deliveries[t].requests) >= 2
        /\ deliveries[t].requests[2] = RequestWith(SnapshotStore["w1"], t, 2)
        /\ \/ "w1" \notin DOMAIN cosmos.webhooks
           \/ cosmos.webhooks["w1"].url = "u2" /\ ~cosmos.webhooks["w1"].is_active

(***************************************************************************)
(* SpecLive: the service is never stopped, the event loop runs every task  *)
(* that is ready, every sleep ends and every POST returns or times out     *)
(***************************************************************************)
LiveOutcomes == {Response(200), Response(500), TimeoutException}

NextLive ==
    \/ Start(RetryLimits)
    \/ Edits
    \/ \E ord \in Orderings(WebhookIds) :
          Broadcast(DocAdded, "t1", TRUE, TRUE, ord, RetryLimits)
    \/ Delivery(LiveOutcomes, {AllOk})

\* the tasks the run can create
LiveTasks == 1..RetryLimits.tasks

\* the event loop resumes the dispatcher when the queue has a task, starts a
\* created task, and resumes a delivery when its POST or its sleep has ended
LiveFairness ==
    /\ WF_vars(\E i \in Workers : Dispatch(i))
    /\ \A t \in LiveTasks :
          /\ WF_vars(ProcessStart(t, AllOk))
          /\ WF_vars(\E o \in LiveOutcomes : PostReturns(t, o, AllOk))
          /\ WF_vars(SleepReturns(t, AllOk))

SpecLive == InitRetry /\ [][NextLive]_vars /\ LiveFairness

\* task t waits in the queue
Queued(t) == \E i \in DOMAIN service._delivery_queue : service._delivery_queue[i].tid = t

Finished(t) == Started(t) /\ deliveries[t].pc = "done"

Dropped(t) ==
    /\ deliveries[t].attempts = <<>>
    /\ ~deliveries[t].success
    /\ DlqCount(t) = 0

DeliveredTask(t) ==
    /\ deliveries[t].success
    /\ Len(deliveries[t].attempts) \in 1..(Len(RETRY_DELAYS) + 1)
    /\ DlqCount(t) = 0

DeadLettered(t) ==
    /\ ~deliveries[t].success
    /\ Len(deliveries[t].attempts) = Len(RETRY_DELAYS) + 1
    /\ DlqCount(t) = 1

\* a finished task is in exactly one terminal state, and the stats of a
\* subscription that is still stored count each finished task once
OneTerminalState ==
    /\ \A t \in TaskIds :
          Finished(t) =>
              \/ Dropped(t) /\ ~DeliveredTask(t) /\ ~DeadLettered(t)
              \/ ~Dropped(t) /\ DeliveredTask(t) /\ ~DeadLettered(t)
              \/ ~Dropped(t) /\ ~DeliveredTask(t) /\ DeadLettered(t)
    /\ \A w \in DOMAIN cosmos.webhooks :
          LET ended == {t \in TaskIds : Finished(t) /\ deliveries[t].task[1].webhook_id = w}
          IN /\ cosmos.webhooks[w].stats.successful_deliveries =
                    Cardinality({t \in ended : DeliveredTask(t)})
             /\ cosmos.webhooks[w].stats.failed_deliveries =
                    Cardinality({t \in ended : DeadLettered(t)})

\* C33: while the service stays running and every POST returns or times out,
\* every task in the queue is eventually dequeued and eventually finished, and
\* a finished task is in exactly one terminal state: dropped, delivered (one
\* success counted) or dead-lettered (one failure counted, one dead-letter
\* entry); a finished task stays finished.
C33_EveryTaskEnds ==
    /\ \A t \in LiveTasks : Queued(t) ~> (~Queued(t) /\ Finished(t))
    /\ [][\A t \in TaskIds : Finished(t) => Finished(t)']_vars
    /\ []OneTerminalState

\* a task has ended in the dead-letter container after a timeout and three
\* answers 500
C33_Witness ==
    \E t \in TaskIds :
        /\ Finished(t)
        /\ DeadLettered(t)
        /\ deliveries[t].attempts[1].kind = "timeout"
        /\ cosmos.webhooks["w1"].stats.failed_deliveries = 1

(***************************************************************************)
(* C34: stop() and the queue                                               *)
(***************************************************************************)
\* the step is a call of stop() on a running service
StopCalled == service._running /\ ~service'._running

\* the step starts a stopped service (start() or the auto-start)
Restarted == ~service._running /\ service'._running

IsPrefix(s, t) == Len(s) <= Len(t) /\ \A i \in DOMAIN s : t[i] = s[i]

\* C34: stop() leaves the queue as it is, in both of its halves; while the
\* service is stopped no queued task is started and none leaves the queue;
\* a start gives the service a running dispatcher; and a task leaves the
\* queue only by being handed, unchanged, to a delivery by a running
\* dispatcher.
C34_step ==
    /\ (StopCalled \/ StopReturns) =>
          /\ service'._delivery_queue = service._delivery_queue
          /\ \A t \in TaskIds : Started(t)' <=> Started(t)
    /\ ~service._running =>
          /\ IsPrefix(service._delivery_queue, service'._delivery_queue)
          /\ \A t \in TaskIds : Started(t)' => Started(t)
    /\ Restarted =>
          /\ service'._worker_task # None
          /\ service'.workers[service'._worker_task[1]] = "running"
    /\ \A i \in DOMAIN service._delivery_queue :
          LET delivery_task == service._delivery_queue[i] IN
          \/ \E j \in DOMAIN service'._delivery_queue :
                service'._delivery_queue[j] = delivery_task
          \/ /\ service._running
             /\ \E k \in DOMAIN service.workers : service.workers[k] = "running"
             /\ deliveries'[delivery_task.tid].task = Some(delivery_task)

C34_StopKeepsQueue == [][C34_step]_vars

\* stop() has returned on a service whose queue holds a task, and the task is
\* still queued and not started
C34_Witness ==
    /\ ~service._running
    /\ stopping = None
    /\ service.workers # <<>>
    /\ service._http_client = None
    /\ service._delivery_queue # <<>>
    /\ \A i \in DOMAIN service._delivery_queue :
          ~Started(service._delivery_queue[i].tid)

(***************************************************************************)
(* C35: the average response time of a subscription                        *)
(***************************************************************************)
\* the step counts a delivery of task t in the stats of its subscription
StatsUpdated(t) ==
    /\ Started(t)
    /\ deliveries[t].pc # "done"
    /\ deliveries'[t].pc = "done"
    /\ deliveries[t].task[1].webhook_id \in DOMAIN cosmos.webhooks
    /\ deliveries[t].task[1].webhook_id \in DOMAIN cosmos'.webhooks
    /\ cosmos'.webhooks[deliveries[t].task[1].webhook_id].stats.total_deliveries =
           cosmos.webhooks[deliveries[t].task[1].webhook_id].stats.total_deliveries + 1

\* the latency the last attempt of task t measured
MeasuredLatency(t) ==
    deliveries'[t].attempts[Len(deliveries'[t].attempts)].elapsed_ms

\* C35: the stats update of a delivery leaves the average at
\* (oldAvg * (n - 1) + latency) / n, n the new total and latency the time
\* measured by the delivery's attempt.
C35_step ==
    \A t \in TaskIds :
        StatsUpdated(t) =>
            LET w == deliveries[t].task[1].webhook_id
                n == cosmos'.webhooks[w].stats.total_deliveries
                oldAvg == cosmos.webhooks[w].stats.avg_response_time_ms
                newAvg == cosmos'.webhooks[w].stats.avg_response_time_ms
            IN newAvg.num * (oldAvg.den * n) =
                   (oldAvg.num * (n - 1) + MeasuredLatency(t) * oldAvg.den) * newAvg.den

C35_RunningMean == [][C35_step]_vars

(***************************************************************************)
(* C36: the answer of the test endpoint for a subscription it cannot use   *)
(***************************************************************************)
\* C36: a test request for an id that is not stored is answered 404, one for
\* a subscription of another tenant 403, and neither enqueues a task.
C36_step ==
    (/\ TestStep
     /\ call'.ok
     /\ get_webhook(cosmos, call'.webhook_id, call'.tenant_id, TRUE) = None) =>
        /\ call'.status_code \in
               (IF call'.webhook_id \in DOMAIN cosmos.webhooks THEN {403, 404} ELSE {404})
        /\ NewTasks = <<>>

C36_TestNotFound == [][C36_step]_vars

(***************************************************************************)
(* C37: the counters of a subscription                                     *)
(***************************************************************************)
StatsOf(c, w) == c.webhooks[w].stats

\* the counters add up in every stored subscription
CountersAddUp ==
    \A w \in DOMAIN cosmos.webhooks :
        /\ StatsOf(cosmos, w).total_deliveries \in Nat
        /\ StatsOf(cosmos, w).successful_deliveries \in Nat
        /\ StatsOf(cosmos, w).failed_deliveries \in Nat
        /\ StatsOf(cosmos, w).total_deliveries =
               StatsOf(cosmos, w).successful_deliveries + StatsOf(cosmos, w).failed_deliveries

\* a step that changes the counters of a subscription adds one to the total
\* and one to exactly one of the other two
C37_step ==
    \A w \in DOMAIN cosmos.webhooks \cap DOMAIN cosmos'.webhooks :
        LET old == StatsOf(cosmos, w)
            new == StatsOf(cosmos', w)
        IN /\ new.total_deliveries >= old.total_deliveries
           /\ new.successful_deliveries >= old.successful_deliveries
           /\ new.failed_deliveries >= old.failed_deliveries
           /\ new # old =>
                 /\ new.total_deliveries = old.total_deliveries + 1
                 /\ \/ /\ new.successful_deliveries = old.successful_deliveries + 1
                       /\ new.failed_deliveries = old.failed_deliveries
                    \/ /\ new.successful_deliveries = old.successful_deliveries
                       /\ new.failed_deliveries = old.failed_deliveries + 1

\* C37: in a subscription created with zero stats, total_deliveries =
\* successful_deliveries + failed_deliveries at all times, each stats update
\* adds one to the total and one to exactly one of the other two counters,
\* and no counter decreases.
C37_Counters == []CountersAddUp /\ [][C37_step]_vars

\* a subscription has counted one delivered and one dead-lettered task
C37_Witness ==
    \E w \in DOMAIN cosmos.webhooks :
        /\ StatsOf(cosmos, w).total_deliveries = 2
        /\ StatsOf(cosmos, w).successful_deliveries = 1
        /\ StatsOf(cosmos, w).failed_deliveries = 1

(***************************************************************************)
(* SpecContain: two tasks for one subscription, with reads of the          *)
(* subscription and dead-letter writes that fail and POSTs that raise      *)
(***************************************************************************)
ContainOutcomes == {Response(200), RuntimeError}

ContainIO == {io \in StoreIO : io.log_ok /\ io.stats_ok}

NextContain ==
    \/ Start(TenantLimits)
    \/ \E ord \in Orderings(WebhookIds) :
          Broadcast(DocAdded, "t1", TRUE, TRUE, ord, TenantLimits)
    \/ Delivery(ContainOutcomes, ContainIO)

SpecContain == InitRetry /\ [][NextContain]_vars

\* task t met an error: a failed store call or an attempt that raised
Erred(t) ==
    /\ Started(t)
    /\ \/ deliveries[t].store_failures > 0
       \/ \E i \in DOMAIN deliveries[t].attempts : deliveries[t].attempts[i].kind = "raised"

\* a step of the delivery of task t
DeliveryStep(t) == Started(t) /\ deliveries'[t] # deliveries[t]

\* a step of a delivery leaves the service, with its dispatcher and queue, and
\* the other deliveries as they are
C38_step ==
    \A t \in TaskIds :
        DeliveryStep(t) =>
            /\ service' = service
            /\ \A u \in TaskIds \ {t} : deliveries'[u] = deliveries[u]

\* whatever errors the tasks met, the dispatcher of a started service runs and
\* can take the next task from the queue
DispatcherAlive ==
    /\ service._running =>
          /\ service._worker_task # None
          /\ service.workers[service._worker_task[1]] = "running"
    /\ service._delivery_queue # <<>> => ENABLED (\E i \in Workers : Dispatch(i))

\* C38: an error met by one task (a failed read of the subscription, an
\* exception raised by an attempt, a failed dead-letter write) changes nothing
\* but that task and the containers: the dispatcher keeps running and a queued
\* task can be dequeued.
C38_Containment == []DispatcherAlive /\ [][C38_step]_vars

\* the first task met four raising attempts and a failed dead-letter write,
\* and the second task, dequeued later, was delivered
C38_Witness ==
    /\ Finished(1)
    /\ Len(deliveries[1].attempts) = Len(RETRY_DELAYS) + 1
    /\ \A i \in DOMAIN deliveries[1].attempts : deliveries[1].attempts[i].kind = "raised"
    /\ deliveries[1].store_failures = 1
    /\ DlqCount(1) = 0
    /\ Finished(2)
    /\ deliveries[2].success

====
